---- MODULE Spec2Model ----
(***************************************************************************)
(* A model of forge-container's image builder: the Forgefile parser        *)
(* (src/forgefile.rs), the image store (src/image.rs) and                  *)
(* ImageBuilder::build (src/imagebuilder.rs).                              *)
(*                                                                         *)
(* Text the code inspects character by character (a Forgefile line, an     *)
(* instruction's argument) is a sequence of one-character strings; text    *)
(* the code only builds and compares (a descriptor, a cache key, a         *)
(* "K=V" entry) is a TLA+ string built with \o, as format! builds it.      *)
(***************************************************************************)
EXTENDS Integers, Sequences, FiniteSets, TLC

VARIABLES
    \* ---- Forgefile::parse, line by line (SpecParse)
    p_lines,          \* content.lines() still to read
    p_instructions,   \* `instructions` of Forgefile::parse
    p_input,          \* the content parse was given (history)
    \* ---- the image store directory
    layer_files,      \* digests d with a file layers/<d>
    cache_index,      \* cache_index.json: cache key -> layer digest
    manifests,        \* manifests/<name>/<tag>: image ref -> layers, or NoManifest
    configs,          \* manifests/<name>/<tag>.config: image ref -> ImageConfig, or NoConfig
    alpine_cache,     \* <root>/alpine-<arch>.tar.gz exists
    \* ---- one run of ImageBuilder::build
    pc,               \* "idle" | "building" | "done" (returned Ok) | "failed" (returned Err)
    forgefile,        \* the lines of the build file given to this build
    image_ref,        \* name:tag given to this build
    instructions,     \* forgefile.instructions
    ip,               \* index of the next instruction of the for loop
    layers,           \* `layers`
    prev_cache_key,   \* `prev_cache_key`
    cache_valid,      \* `cache_valid`
    config,           \* `config`
    rootfs,           \* what /tmp/container-build/rootfs holds
    \* ---- history of the run, for the properties
    log,              \* one entry per instruction processed by this build
    store0,           \* the store as this build found it
    prev_build,       \* the build that returned Ok right before this one, or NoBuild
    nbuilds,          \* builds started
    nremoved,         \* layer files removed from outside
    \* ---- one invocation of the run path (SpecRun)
    r_mode,           \* "image" (run IMAGE:TAG) | "interactive" (no arguments)
    cg_version,       \* 1 | 2, what is_cgroup_v2 finds
    cg_writable,      \* the cgroup filesystem accepts this user's writes
    cg_dirs,          \* controllers under which the container's cgroup directory exists
    cg_members,       \* <<controller, pid>>: pid was written to (or forked in) that cgroup
    alive,            \* the processes that exist
    exit_code,        \* pid -> exit code, NotExited before
    m_pc,             \* where main of the interactive mode is
    h_pc,             \* where the process running the engine (H) is
    c_pc,             \* where the child of its fork is
    h_trace,          \* the steps H has completed, in order (history)
    c_trace,          \* the steps C has completed, in order (history)
    cl_pc,            \* where cleanup_cgroup is
    cl_i,             \* the controller cleanup_cgroup is at
    cl_listed,        \* lines of the cgroup.procs just read, not yet signalled
    cl_read,          \* controller -> the pids read from its cgroup.procs (history)
    cl_killed,        \* pids cleanup_cgroup has sent SIGKILL (history)
    cl_removed,       \* controllers whose remove_dir was attempted (history)
    cl_post,          \* when cleanup_cgroup returned, each directory was gone or listed no pid
    net_unshared,     \* C has its own network namespace
    peer_in,          \* the namespace `ip link set <peer> netns` moved the peer into
    cc_targets,       \* namespaces in which a command of configure_container_veth acted
    netns_link,       \* /var/run/netns/cnt-<pid> exists
    rootfs_dir,       \* the container's rootfs directory exists
    fatal_failed,     \* a step whose failure ends its process has failed (history)
    nforeign,         \* foreign processes written to the container's cgroup
    cg_subtree,       \* controllers listed in /sys/fs/cgroup/cgroup.subtree_control (v2)
    cg_files,         \* path under /sys/fs/cgroup -> what a read of that control file returns
    \* ---- invocations of the runtime that run at the same time (SpecLive)
    inv,              \* invocation -> [state, mode, name]: its cgroup name once it runs
    uuids,            \* the values Uuid::new_v4 has returned
    \* ---- one call of run_image (SpecImage)
    ri_pc,            \* where run_image is
    ri_ref,           \* `image_ref`
    ri_name,          \* `name`
    ri_tag,           \* `tag`
    ri_manifest,      \* `manifest`, NotLoaded before load_manifest
    ri_config,        \* `config`, NotLoaded before it is read
    ri_id,            \* `container_id`, NoId before Uuid::new_v4
    ri_i,             \* index of the next layer of the for loop
    ri_tar,           \* the digests tar has been run on, in order (history)
    ri_content,       \* the digests whose tar exited with status 0, in order (history)
    ri_call,          \* the arguments run_container_from_image was called with, or NoCall
    \* ---- one call of setup_root_filesystem (SpecRootfs)
    fs_pc,            \* the function of setup_root_filesystem the child is at
    fs_root,          \* `new_root`
    fs_calls,         \* the calls made on the filesystem, each with its outcome (history)
    fs_exit,          \* the child's exit code, NotExited before
    fs_old_root,      \* /old_root of the new root: "absent" | "dir" | "old root" (mounted on)
    \* ---- the files of the store, as text (SpecStore)
    store_files,      \* path -> the characters of the file, for the files that exist
    f_saved,          \* path -> what the last save to it that returned Ok was given (history)
    f_last            \* the last operation on the store and its result (history)

parseVars == <<p_lines, p_instructions, p_input>>
storeVars == <<layer_files, cache_index, manifests, configs, alpine_cache>>
buildVars == <<pc, forgefile, image_ref, instructions, ip, layers,
               prev_cache_key, cache_valid, config, rootfs>>
histVars  == <<log, store0, prev_build, nbuilds, nremoved>>
cgVars    == <<cg_dirs, cg_members>>
procVars  == <<alive, exit_code>>
clVars    == <<cl_pc, cl_i, cl_listed, cl_read, cl_killed, cl_removed, cl_post>>
netVars   == <<net_unshared, peer_in, cc_targets, netns_link>>
sysVars   == <<cg_subtree, cg_files>>
runVars   == <<r_mode, cg_version, cg_writable, cgVars, procVars, m_pc, h_pc,
               c_pc, h_trace, c_trace, clVars, netVars, rootfs_dir,
               fatal_failed, nforeign, sysVars>>
imageVars == <<ri_pc, ri_ref, ri_name, ri_tag, ri_manifest, ri_config, ri_id,
               ri_i, ri_tar, ri_content, ri_call>>
rootfsVars == <<fs_pc, fs_root, fs_calls, fs_exit, fs_old_root>>
liveVars  == <<inv, uuids, imageVars, rootfsVars>>
fileVars  == <<store_files, f_saved, f_last>>
\* what no step of the builder changes
restVars  == <<runVars, liveVars, fileVars>>
\* what no step of the run path changes: its environment, and the builder
baseVars  == <<r_mode, cg_version, cg_writable,
               parseVars, storeVars, buildVars, histVars, liveVars, fileVars>>
envVars   == <<baseVars, sysVars>>
vars == <<parseVars, storeVars, buildVars, histVars, runVars, liveVars,
          fileVars>>

(***************************************************************************)
(* Bounds                                                                  *)
(***************************************************************************)
MaxBuilds   == 2   \* builds in one behaviour
MaxRemoved  == 1   \* layer files removed from outside in one behaviour
MaxArgLen   == 3   \* characters of a generated line's argument text
MaxForeign  == 1   \* foreign processes written to the container's cgroup
MaxInvocations == 3   \* invocations of the runtime in one behaviour

(***************************************************************************)
(* Rust's str operations, on sequences of characters                       *)
(***************************************************************************)
Lower == <<"a","b","c","d","e","f","g","h","i","j","k","l","m",
           "n","o","p","q","r","s","t","u","v","w","x","y","z">>
Upper == <<"A","B","C","D","E","F","G","H","I","J","K","L","M",
           "N","O","P","Q","R","S","T","U","V","W","X","Y","Z">>

is_whitespace(c) == c \in {" ", "\t"}

\* to_uppercase as it would be if the command word were taken as written
to_uppercase_as_written(s) == s

to_uppercase(s) ==
    [i \in 1..Len(s) |->
        IF \E n \in DOMAIN Lower : Lower[n] = s[i]
        THEN Upper[CHOOSE n \in DOMAIN Lower : Lower[n] = s[i]]
        ELSE s[i]]

RECURSIVE trim_start(_)
trim_start(s) ==
    IF s # <<>> /\ is_whitespace(Head(s)) THEN trim_start(Tail(s)) ELSE s

RECURSIVE trim_end(_)
trim_end(s) ==
    IF s # <<>> /\ is_whitespace(s[Len(s)])
    THEN trim_end(SubSeq(s, 1, Len(s) - 1)) ELSE s

trim(s) == trim_end(trim_start(s))

RECURSIVE trim_start_matches(_, _)
trim_start_matches(s, c) ==
    IF s # <<>> /\ Head(s) = c THEN trim_start_matches(Tail(s), c) ELSE s

RECURSIVE trim_end_matches(_, _)
trim_end_matches(s, c) ==
    IF s # <<>> /\ s[Len(s)] = c
    THEN trim_end_matches(SubSeq(s, 1, Len(s) - 1), c) ELSE s

trim_matches(s, c) == trim_end_matches(trim_start_matches(s, c), c)

starts_with(s, prefix) ==
    Len(s) >= Len(prefix) /\ SubSeq(s, 1, Len(prefix)) = prefix

ends_with(s, suffix) ==
    Len(s) >= Len(suffix) /\ SubSeq(s, Len(s) - Len(suffix) + 1, Len(s)) = suffix

\* s.find(c): index of the first c in s, 0 when there is none
find(s, c) ==
    IF \E i \in 1..Len(s) : s[i] = c
    THEN CHOOSE i \in 1..Len(s) : s[i] = c /\ \A j \in 1..(i - 1) : s[j] # c
    ELSE 0

\* index of the first whitespace character of s, 0 when there is none
find_whitespace(s) ==
    IF \E i \in 1..Len(s) : is_whitespace(s[i])
    THEN CHOOSE i \in 1..Len(s) :
            is_whitespace(s[i]) /\ \A j \in 1..(i - 1) : ~is_whitespace(s[j])
    ELSE 0

\* s.splitn(2, c): at most two parts, cut at the first c
splitn2(s, c) ==
    LET i == find(s, c)
    IN  IF i = 0 THEN <<s>>
        ELSE <<SubSeq(s, 1, i - 1), SubSeq(s, i + 1, Len(s))>>

\* s.split(c): every part between occurrences of c
RECURSIVE split(_, _)
split(s, c) ==
    LET i == find(s, c)
    IN  IF i = 0 THEN <<s>>
        ELSE <<SubSeq(s, 1, i - 1)>> \o split(SubSeq(s, i + 1, Len(s)), c)

\* s.split_whitespace(): the maximal runs of non-whitespace characters
RECURSIVE split_whitespace(_)
split_whitespace(s) ==
    LET t == trim_start(s)
        i == find_whitespace(t)
    IN  IF t = <<>> THEN <<>>
        ELSE IF i = 0 THEN <<t>>
        ELSE <<SubSeq(t, 1, i - 1)>> \o split_whitespace(SubSeq(t, i, Len(t)))

\* the String a format!("{}", s) holds
RECURSIVE Display(_)
Display(s) == IF s = <<>> THEN "" ELSE Head(s) \o Display(Tail(s))

\* the String a format!("{:?}", s) holds for a str: quoted and escaped
RECURSIVE EscapeDebug(_)
EscapeDebug(s) ==
    IF s = <<>> THEN ""
    ELSE (IF Head(s) \in {"\"", "\\"} THEN "\\" \o Head(s) ELSE Head(s))
         \o EscapeDebug(Tail(s))

RECURSIVE DebugJoin(_)
DebugJoin(v) ==
    IF v = <<>> THEN ""
    ELSE "\"" \o EscapeDebug(Head(v)) \o "\""
         \o (IF Len(v) > 1 THEN ", " ELSE "") \o DebugJoin(Tail(v))

\* format!("{:?}", v) for a Vec<String>
DebugVec(v) == "[" \o DebugJoin(v) \o "]"

(***************************************************************************)
(* forgefile.rs: Instruction, parse_json_array, parse_command_line, parse  *)
(***************************************************************************)
From(image)       == [op |-> "FROM", image |-> image]
Copy(src, dest)   == [op |-> "COPY", src |-> src, dest |-> dest]
Run(command)      == [op |-> "RUN", command |-> command]
Workdir(path)     == [op |-> "WORKDIR", path |-> path]
Env(key, value)   == [op |-> "ENV", key |-> key, value |-> value]
Entrypoint(args)  == [op |-> "ENTRYPOINT", args |-> args]

\* Result<Option<Instruction>, _>: Ok(Some(i)), Ok(None), Err(_)
OkSome(i) == [ok |-> TRUE,  some |-> <<i>>]
OkNone    == [ok |-> TRUE,  some |-> <<>>]
Err       == [ok |-> FALSE, some |-> <<>>]

NonEmpty(p) == p # <<>>

parse_json_array(s0) ==
    LET s == trim(s0) IN
    IF ~starts_with(s, <<"[">>) \/ ~ends_with(s, <<"]">>)
    THEN [ok |-> FALSE, parts |-> <<>>]
    ELSE LET inner == SubSeq(s, 2, Len(s) - 1)
             raw   == split(inner, ",")
             parts == [i \in 1..Len(raw) |-> trim_matches(trim(raw[i]), "\"")]
         IN  [ok |-> TRUE, parts |-> SelectSeq(parts, NonEmpty)]

parse_command_line(parts) ==
    LET command == to_uppercase(parts[1])
        args    == parts[2]
    IN  CASE command = <<"F","R","O","M">> -> OkSome(From(args))
          [] command = <<"C","O","P","Y">> ->
                LET copy_parts == split_whitespace(args) IN
                IF Len(copy_parts) < 2 THEN Err
                ELSE OkSome(Copy(copy_parts[1], copy_parts[2]))
          [] command = <<"R","U","N">> -> OkSome(Run(args))
          [] command = <<"W","O","R","K","D","I","R">> -> OkSome(Workdir(args))
          [] command = <<"E","N","V">> ->
                LET env_parts == splitn2(args, "=") IN
                IF Len(env_parts) < 2 THEN Err
                ELSE OkSome(Env(env_parts[1], env_parts[2]))
          [] command = <<"E","N","T","R","Y","P","O","I","N","T">> ->
                LET a == parse_json_array(args) IN
                IF ~a.ok THEN Err ELSE OkSome(Entrypoint(a.parts))
          [] OTHER -> OkNone

\* the body of parse's loop over content.lines(): `instrs` after one line
parse_line(instrs, raw) ==
    LET line == trim(raw) IN
    IF line = <<>> \/ starts_with(line, <<"#">>) THEN instrs
    ELSE LET parts == splitn2(line, " ") IN
         IF Len(parts) < 2 THEN instrs
         ELSE LET r == parse_command_line(parts) IN
              IF r.ok /\ r.some # <<>> THEN Append(instrs, r.some[1]) ELSE instrs

\* Forgefile::parse of a readable file: the instructions it returns
RECURSIVE parse_from(_, _)
parse_from(instrs, lines) ==
    IF lines = <<>> THEN instrs
    ELSE parse_from(parse_line(instrs, Head(lines)), Tail(lines))

parse(lines) == parse_from(<<>>, lines)

(***************************************************************************)
(* image.rs: ImageStore                                                    *)
(***************************************************************************)
\* hex::encode(Sha256::digest(bytes)): collision-free, so one-to-one on its input
Sha256Hex(bytes) == "<" \o bytes \o ">"

\* a bug: the name does not depend on the bytes
LayerDigest_fixed(data) == <<"sha256:", <<>>>>

\* the name save_layer gives a tarball: "sha256:" and the hash of its bytes
LayerDigest(data) == <<"sha256:", data>>

\* the bytes of the file layers/<digest>: those save_layer hashed
LayerData(digest) == digest[2]

\* save_layer as it would be if it returned the digest without the copy
save_layer_uncopied(files, data) == files

save_layer(files, data) == files \cup {LayerDigest(data)}

\* a bug: every digest is taken to have its file
layer_exists_always(digest) == TRUE

layer_exists(digest) == digest \in layer_files

EmptyFn == [x \in {} |-> x]

\* a cache_index.json whose text is not a JSON map of strings
CorruptIndexFile == [k \in {"{ not a map"} |-> "of strings"]

\* a bug: the text of the file is taken as it is
load_cache_index_unchecked(file) == file

\* the file cache_index.json read as a mapping: the empty mapping when
\* from_str fails (an absent file is the empty mapping already)
load_cache_index(file) ==
    IF file = CorruptIndexFile THEN EmptyFn ELSE file

\* Option<String>: <<d>> for Some(d), <<>> for None
get_cached_layer(cache_key) ==
    LET index == load_cache_index(cache_index) IN
    IF cache_key \in DOMAIN index THEN <<index[cache_key]>> ELSE <<>>

\* a bug: the entry is inserted into the loaded map and the map is not saved
cache_layer_unsaved(index, cache_key, layer_digest) == index

\* load_cache_index, insert, save_cache_index
cache_layer(index, cache_key, layer_digest) ==
    LET loaded == load_cache_index(index) IN
    [k \in DOMAIN loaded \cup {cache_key} |->
        IF k = cache_key THEN layer_digest ELSE loaded[k]]

save_manifest(saved, ref, manifest_layers) ==
    [r \in DOMAIN saved \cup {ref} |->
        IF r = ref THEN manifest_layers ELSE saved[r]]

(***************************************************************************)
(* imagebuilder.rs: the helpers of ImageBuilder                            *)
(***************************************************************************)
\* a bug: the previous key is left out of the hash
compute_cache_key_unchained(prev_key, instruction) ==
    "cache:" \o Sha256Hex(instruction)

compute_cache_key(prev_key, instruction) ==
    "cache:" \o Sha256Hex(prev_key \o instruction)

\* src_content: <<c>> when context_dir/src is a file holding c, <<>> when it is
\* neither a file nor a directory (nothing is fed to the hasher)
hash_path(src_content) ==
    Sha256Hex(IF src_content = <<>> THEN "" ELSE src_content[1])

\* the text each arm of build hashes into the chain
Descriptor(instruction, content_hash) ==
    CASE instruction.op = "FROM" -> "FROM:" \o Display(instruction.image)
      [] instruction.op = "COPY" ->
            "COPY:" \o Display(instruction.src) \o ":" \o Display(instruction.dest)
                    \o ":" \o content_hash
      [] instruction.op = "RUN" -> "RUN:" \o Display(instruction.command)
      [] instruction.op = "WORKDIR" -> "WORKDIR:" \o Display(instruction.path)
      [] instruction.op = "ENV" ->
            "ENV:" \o Display(instruction.key) \o "=" \o Display(instruction.value)
      [] instruction.op = "ENTRYPOINT" ->
            "ENTRYPOINT:" \o DebugVec(instruction.args)

\* tar -xzf layers/<digest> -C rootfs: the layer's files are written over rootfs
extract_layer(digest, fs) == fs \cup LayerData(digest).fs

\* tar -czf of the whole rootfs: the bytes depend on the files and on their
\* modification times
TarBytes(fs, mtime) == [fs |-> fs, mtime |-> mtime]

\* a bug: the index is trusted without looking for the layer file
CacheHit_unchecked(cache_key) ==
    /\ cache_valid
    /\ get_cached_layer(cache_key) # <<>>

\* the guard of the cached path, the same in the FROM, COPY and RUN arms
CacheHit(cache_key) ==
    /\ cache_valid
    /\ get_cached_layer(cache_key) # <<>>
    /\ layer_exists(get_cached_layer(cache_key)[1])

InitialConfig ==
    [entrypoint  |-> <<>>,
     env         |-> <<"PATH=/usr/local/bin:/usr/bin:/bin">>,
     working_dir |-> "/"]

(***************************************************************************)
(* The build files and inputs of the bounded model                         *)
(***************************************************************************)
L_FromAlpine  == <<"F","R","O","M"," ","a","l","p","i","n","e">>
L_FromUbuntu  == <<"F","R","O","M"," ","u","b","u","n","t","u">>
L_RunA        == <<"R","U","N"," ","a">>
L_RunB        == <<"r","u","n"," ","b">>
L_CopyF       == <<"C","O","P","Y"," ","f"," ","/","f">>
L_CopyOne     == <<"C","O","P","Y"," ","f">>
L_CopyAB_C    == <<"C","O","P","Y"," ","a",":","b"," ","c">>
L_CopyA_BC    == <<"C","O","P","Y"," ","a"," ","b",":","c">>
L_WorkdirW    == <<"W","O","R","K","D","I","R"," ","/","w">>
L_WorkdirV    == <<"W","O","R","K","D","I","R"," ","/","v">>
L_EnvK1       == <<"E","N","V"," ","K","=","1">>
L_EnvK2       == <<"E","N","V"," ","K","=","2">>
L_EnvNoEq     == <<"E","N","V"," ","N","O","E","Q">>
L_EnvFoo      == <<"E","N","V"," "," ","F","O","O","=","b","a","r","=","b","a","z">>
L_EntryX      == <<"E","N","T","R","Y","P","O","I","N","T"," ","[","\"","x","\"","]">>
L_EntryY      == <<"E","N","T","R","Y","P","O","I","N","T"," ","[","\"","y","\"","]">>
L_Comment     == <<" ","#"," ","c">>

BuildFiles ==
    { <<>>,
      <<L_Comment, L_WorkdirW, L_EnvK1, L_EnvK2, L_WorkdirV, L_EntryX, L_EntryY>>,
      <<L_FromAlpine, L_RunA, L_EntryX>>,
      <<L_FromAlpine, L_RunB, L_EntryX>>,
      <<L_FromAlpine, L_CopyF>>,
      <<L_WorkdirW, L_EnvK1, L_EntryX, L_RunA>>,
      <<L_WorkdirV, L_EnvK1, L_EntryX, L_RunA>>,
      <<L_WorkdirW, L_EnvK2, L_EntryX, L_RunA>>,
      <<L_WorkdirW, L_EnvK1, L_EntryY, L_RunA>>,
      <<L_FromUbuntu, L_RunA>>,
      <<L_FromAlpine, L_EnvNoEq, L_RunA>>,
      <<L_CopyOne, L_EnvFoo>>,
      <<L_CopyAB_C>>,
      <<L_CopyA_BC>> }

ImageRefs == {"app:latest"}

\* what context_dir/<src> is when a COPY reads it: absent, or a file's bytes
SourceStates == {<<>>, <<"c1">>, <<"c2">>}

\* the modification times a layer tarball can carry: those of the files it
\* unpacked (0), or the time of the build that wrote them
MTimes == {0, nbuilds}

NoDigest == <<"none">>
NoBuild  == [ok |-> FALSE]

(***************************************************************************)
(* ImageBuilder::build, one action per arm of its loop                     *)
(***************************************************************************)
IsLayerOp(op) == op \in {"FROM", "COPY", "RUN"}

Building == pc = "building" /\ ip <= Len(instructions)

\* what the history keeps of one instruction: what the arm read and did
Entry(instruction, desc, cache_key, kind, digest, ran) ==
    [op      |-> instruction.op,
     instr   |-> instruction,
     desc    |-> desc,
     key     |-> cache_key,
     kind    |-> kind,
     valid   |-> cache_valid,
     indexed |-> get_cached_layer(cache_key) # <<>>,
     present |-> get_cached_layer(cache_key) # <<>>
                 /\ get_cached_layer(cache_key)[1] \in layer_files,
     digest  |-> digest,
     ran     |-> ran,
     extract_ok |-> TRUE]

\* a bug: the cached path forgets layers.push
TakeCached_unpushed(instruction, desc, cache_key) ==
    LET layer_digest == get_cached_layer(cache_key)[1] IN
    /\ \E ok \in BOOLEAN :
          /\ rootfs' = IF ok THEN extract_layer(layer_digest, rootfs) ELSE rootfs
          /\ log' = Append(log, [Entry(instruction, desc, cache_key, "hit",
                                       layer_digest, <<"tar -xzf layer">>)
                                    EXCEPT !.extract_ok = ok])
    /\ prev_cache_key' = cache_key
    /\ ip' = ip + 1
    /\ UNCHANGED <<storeVars, pc, forgefile, image_ref, instructions, layers,
                   cache_valid, config>>

\* the cached path of an arm: extract_layer (tar's exit status is not looked
\* at: `.status()?` is Err only when tar cannot be started), push, advance
\* the chain, continue.  A tar that fails leaves rootfs as it was.
TakeCached(instruction, desc, cache_key) ==
    LET layer_digest == get_cached_layer(cache_key)[1] IN
    /\ \E ok \in BOOLEAN :
          /\ rootfs' = IF ok THEN extract_layer(layer_digest, rootfs) ELSE rootfs
          /\ log' = Append(log, [Entry(instruction, desc, cache_key, "hit",
                                       layer_digest, <<"tar -xzf layer">>)
                                    EXCEPT !.extract_ok = ok])
    /\ layers' = Append(layers, layer_digest)
    /\ prev_cache_key' = cache_key
    /\ ip' = ip + 1
    /\ UNCHANGED <<storeVars, pc, forgefile, image_ref, instructions,
                   cache_valid, config>>

\* a bug: the miss path forgets cache_valid = false
CommitLayer_still_valid(instruction, desc, cache_key, fs, ran) ==
    \E mtime \in MTimes :
        LET data         == TarBytes(fs, mtime)
            layer_digest == LayerDigest(data)
        IN  /\ rootfs' = fs
            /\ layer_files' = save_layer(layer_files, data)
            /\ cache_index' = cache_layer(cache_index, cache_key, layer_digest)
            /\ layers' = Append(layers, layer_digest)
            /\ prev_cache_key' = cache_key
            /\ ip' = ip + 1
            /\ log' = Append(log, Entry(instruction, desc, cache_key, "miss",
                                        layer_digest, ran \o <<"tar -czf">>))
            /\ UNCHANGED <<manifests, configs, pc, forgefile, image_ref,
                           instructions, config, cache_valid>>

\* the end of a miss whose effect succeeded and left `fs`: the flag is
\* cleared (before the effect, in the code), then create_layer, cache_layer,
\* push, advance the chain
CommitLayer(instruction, desc, cache_key, fs, ran) ==
    \E mtime \in MTimes :
        LET data         == TarBytes(fs, mtime)
            layer_digest == LayerDigest(data)
        IN  /\ cache_valid' = FALSE
            /\ rootfs' = fs
            /\ layer_files' = save_layer(layer_files, data)
            /\ cache_index' = cache_layer(cache_index, cache_key, layer_digest)
            /\ layers' = Append(layers, layer_digest)
            /\ prev_cache_key' = cache_key
            /\ ip' = ip + 1
            /\ log' = Append(log, Entry(instruction, desc, cache_key, "miss",
                                        layer_digest, ran \o <<"tar -czf">>))
            /\ UNCHANGED <<manifests, configs, pc, forgefile, image_ref,
                           instructions, config>>

\* a miss whose effect returned Err: `?` leaves build
Abort(instruction, desc, cache_key, ran) ==
    /\ cache_valid' = FALSE
    /\ pc' = "failed"
    /\ log' = Append(log, Entry(instruction, desc, cache_key, "failed", NoDigest,
                                ran))
    /\ UNCHANGED <<layer_files, cache_index, manifests, configs, forgefile,
                   image_ref, instructions, ip, layers, prev_cache_key, config,
                   rootfs>>

BuildFrom ==
    /\ Building
    /\ instructions[ip].op = "FROM"
    /\ LET instruction == instructions[ip]
           desc        == Descriptor(instruction, "")
           cache_key   == compute_cache_key(prev_cache_key, desc)
           alpine      == starts_with(instruction.image, <<"a","l","p","i","n","e">>)
           unpacked    == rootfs \cup {"alpine-minirootfs"}
       IN  \/ /\ CacheHit(cache_key)
              /\ TakeCached(instruction, desc, cache_key)
              /\ UNCHANGED alpine_cache
           \/ \* the tarball is there: tar -xzf, its exit status not looked at
              /\ ~CacheHit(cache_key)
              /\ alpine /\ alpine_cache
              /\ \/ CommitLayer(instruction, desc, cache_key, unpacked,
                                <<"tar -xzf alpine">>)
                 \/ CommitLayer(instruction, desc, cache_key, rootfs,
                                <<"tar -xzf alpine: failed">>)
              /\ UNCHANGED alpine_cache
           \/ \* curl -L -o: the build stops only when curl exits non-zero; an
              \* HTTP error is exit 0 and its body is kept as the tarball
              /\ ~CacheHit(cache_key)
              /\ alpine /\ ~alpine_cache
              /\ \/ /\ CommitLayer(instruction, desc, cache_key, unpacked,
                                   <<"curl", "tar -xzf alpine">>)
                    /\ alpine_cache' = TRUE
                 \/ /\ CommitLayer(instruction, desc, cache_key, rootfs,
                                   <<"curl: HTTP error", "tar -xzf alpine: failed">>)
                    /\ alpine_cache' = TRUE
                 \/ /\ Abort(instruction, desc, cache_key, <<"curl">>)
                    /\ alpine_cache' \in BOOLEAN
           \/ /\ ~CacheHit(cache_key)
              /\ ~alpine
              /\ Abort(instruction, desc, cache_key, <<>>)
              /\ UNCHANGED alpine_cache
    /\ UNCHANGED <<parseVars, restVars, store0, prev_build, nbuilds, nremoved>>

BuildCopy ==
    /\ Building
    /\ instructions[ip].op = "COPY"
    /\ \E src_content \in SourceStates :
        LET instruction == instructions[ip]
            desc        == Descriptor(instruction, hash_path(src_content))
            cache_key   == compute_cache_key(prev_cache_key, desc)
        IN  \/ /\ CacheHit(cache_key)
               /\ TakeCached(instruction, desc, cache_key)
            \/ /\ ~CacheHit(cache_key)
               /\ src_content # <<>>
               /\ CommitLayer(instruction, desc, cache_key,
                              rootfs \cup {"copy:" \o Display(instruction.dest)
                                           \o "=" \o src_content[1]},
                              <<"fs::copy">>)
            \/ /\ ~CacheHit(cache_key)
               /\ src_content = <<>>
               /\ Abort(instruction, desc, cache_key, <<"fs::copy">>)
    /\ UNCHANGED <<parseVars, restVars, alpine_cache, store0, prev_build, nbuilds, nremoved>>

BuildRun ==
    /\ Building
    /\ instructions[ip].op = "RUN"
    /\ LET instruction == instructions[ip]
           desc        == Descriptor(instruction, "")
           cache_key   == compute_cache_key(prev_cache_key, desc)
       IN  \/ /\ CacheHit(cache_key)
              /\ TakeCached(instruction, desc, cache_key)
           \/ /\ ~CacheHit(cache_key)
              /\ \E success \in BOOLEAN :
                    IF success
                    THEN CommitLayer(instruction, desc, cache_key,
                                     rootfs \cup {"etc/resolv.conf",
                                                  "run:" \o Display(instruction.command)},
                                     <<"chroot">>)
                    ELSE Abort(instruction, desc, cache_key, <<"chroot">>)
    /\ UNCHANGED <<parseVars, restVars, alpine_cache, store0, prev_build, nbuilds, nremoved>>

\* a bug: a metadata arm changes the config and leaves prev_cache_key alone
Metadata_unchained(instruction, new_config) ==
    LET desc == Descriptor(instruction, "") IN
    /\ config' = new_config
    /\ ip' = ip + 1
    /\ log' = Append(log, Entry(instruction, desc, prev_cache_key,
                                "meta", NoDigest, <<>>))
    /\ UNCHANGED <<parseVars, restVars, storeVars, pc, forgefile, image_ref, instructions,
                   layers, cache_valid, rootfs, store0, prev_build,
                   nbuilds, nremoved, prev_cache_key>>

\* the end of the WORKDIR, ENV and ENTRYPOINT arms: the chain advances
Metadata(instruction, new_config) ==
    LET desc == Descriptor(instruction, "") IN
    /\ config' = new_config
    /\ prev_cache_key' = compute_cache_key(prev_cache_key, desc)
    /\ ip' = ip + 1
    /\ log' = Append(log, Entry(instruction, desc,
                                compute_cache_key(prev_cache_key, desc),
                                "meta", NoDigest, <<>>))
    /\ UNCHANGED <<parseVars, restVars, storeVars, pc, forgefile, image_ref, instructions,
                   layers, cache_valid, rootfs, store0, prev_build,
                   nbuilds, nremoved>>

BuildWorkdir ==
    /\ Building
    /\ instructions[ip].op = "WORKDIR"
    /\ Metadata(instructions[ip],
                [config EXCEPT !.working_dir = Display(instructions[ip].path)])

\* a bug: the ENV arm assigns env instead of pushing to it
BuildEnv_replacing ==
    /\ Building
    /\ instructions[ip].op = "ENV"
    /\ Metadata(instructions[ip],
                [config EXCEPT !.env =
                    <<Display(instructions[ip].key) \o "="
                      \o Display(instructions[ip].value)>>])

BuildEnv ==
    /\ Building
    /\ instructions[ip].op = "ENV"
    /\ Metadata(instructions[ip],
                [config EXCEPT !.env =
                    Append(@, Display(instructions[ip].key) \o "="
                              \o Display(instructions[ip].value))])

BuildEntrypoint ==
    /\ Building
    /\ instructions[ip].op = "ENTRYPOINT"
    /\ Metadata(instructions[ip],
                [config EXCEPT !.entrypoint =
                    [i \in 1..Len(instructions[ip].args) |->
                        Display(instructions[ip].args[i])]])

\* after the loop: save_manifest, the config file, remove the build directory
BuildFinish ==
    /\ pc = "building"
    /\ ip > Len(instructions)
    /\ manifests' = save_manifest(manifests, image_ref, layers)
    /\ configs' = [r \in DOMAIN configs \cup {image_ref} |->
                      IF r = image_ref THEN config ELSE configs[r]]
    /\ rootfs' = {}
    /\ pc' = "done"
    /\ UNCHANGED <<parseVars, restVars, layer_files, cache_index, alpine_cache, forgefile,
                   image_ref, instructions, ip, layers, prev_cache_key,
                   cache_valid, config, histVars>>

\* build_image / build up to the loop: parse, a fresh build directory, the
\* initial config, an empty `layers`, the chain seeded with "base"
StartBuild(limit) ==
    /\ pc = "idle"
    /\ nbuilds < limit
    /\ \E file \in BuildFiles, ref \in ImageRefs :
        /\ forgefile' = file
        /\ image_ref' = ref
        /\ instructions' = parse(file)
    /\ pc' = "building"
    /\ ip' = 1
    /\ layers' = <<>>
    /\ prev_cache_key' = "base"
    /\ cache_valid' = TRUE
    /\ config' = InitialConfig
    /\ rootfs' = {}
    /\ log' = <<>>
    /\ store0' = [layer_files |-> layer_files, cache_index |-> cache_index,
                  alpine_cache |-> alpine_cache, manifests |-> manifests,
                  configs |-> configs]
    /\ nbuilds' = nbuilds + 1
    /\ UNCHANGED <<parseVars, restVars, storeVars, prev_build, nremoved>>

BuildStart == StartBuild(MaxBuilds)

\* build returns to main and the process ends
BuildExit ==
    /\ pc \in {"done", "failed"}
    /\ prev_build' = IF pc = "done"
                     THEN [ok |-> TRUE, instructions |-> instructions,
                           log |-> log, layers |-> layers, store0 |-> store0]
                     ELSE NoBuild
    /\ pc' = "idle"
    /\ forgefile' = <<>>
    /\ instructions' = <<>>
    /\ ip' = 1
    /\ layers' = <<>>
    /\ prev_cache_key' = "base"
    /\ cache_valid' = TRUE
    /\ config' = InitialConfig
    /\ rootfs' = {}
    /\ log' = <<>>
    /\ UNCHANGED <<parseVars, restVars, storeVars, image_ref, store0, nbuilds, nremoved>>

\* between two builds a file of layers/ is deleted from outside; the index
\* entries naming it stay
RemoveLayerFile ==
    /\ pc = "idle"
    /\ nremoved < MaxRemoved
    /\ \E d \in layer_files : layer_files' = layer_files \ {d}
    /\ nremoved' = nremoved + 1
    /\ prev_build' = NoBuild
    /\ UNCHANGED <<parseVars, restVars, cache_index, manifests, configs, alpine_cache,
                   buildVars, log, store0, nbuilds>>

\* the processes of one invocation, and one that is not of it
Pids == {"M", "H", "C", "X"}

AllControllers == {"unified", "cpu", "memory", "pids"}

NotExited == -1

\* no invocation of the run path
RunIdle ==
    /\ r_mode = "image" /\ cg_version = 2 /\ cg_writable = TRUE
    /\ cg_dirs = {} /\ cg_members = {}
    /\ alive = {} /\ exit_code = [p \in Pids |-> NotExited]
    /\ m_pc = "off" /\ h_pc = "off" /\ c_pc = "off"
    /\ h_trace = <<>> /\ c_trace = <<>>
    /\ cl_pc = "idle" /\ cl_i = 1 /\ cl_listed = {}
    /\ cl_read = [c \in AllControllers |-> {}]
    /\ cl_killed = {} /\ cl_removed = {} /\ cl_post = TRUE
    /\ net_unshared = FALSE /\ peer_in = "nowhere" /\ cc_targets = {}
    /\ netns_link = FALSE
    /\ rootfs_dir = FALSE
    /\ fatal_failed = FALSE
    /\ nforeign = 0
    /\ cg_subtree = {} /\ cg_files = EmptyFn

NoId == "none"
NoCall == [called |-> FALSE]
NotLoaded == [loaded |-> FALSE]

\* run_image is not looked at step by step
ImageIdle ==
    /\ ri_pc = "idle" /\ ri_ref = <<>> /\ ri_name = <<>> /\ ri_tag = <<>>
    /\ ri_manifest = NotLoaded /\ ri_config = NotLoaded /\ ri_id = NoId
    /\ ri_i = 1 /\ ri_tar = <<>> /\ ri_content = <<>> /\ ri_call = NoCall

\* setup_root_filesystem is not looked at call by call
RootfsIdle ==
    /\ fs_pc = "idle" /\ fs_root = "" /\ fs_calls = <<>>
    /\ fs_exit = NotExited /\ fs_old_root = "absent"

\* no invocation has started
LiveIdle ==
    /\ inv = [i \in 1..MaxInvocations |-> [state |-> "none"]]
    /\ uuids = {}
    /\ ImageIdle
    /\ RootfsIdle

NoOp == [op |-> "none"]

\* the store's files are not looked at as text
FilesIdle ==
    /\ store_files = EmptyFn
    /\ f_saved = EmptyFn
    /\ f_last = NoOp

\* an empty store (ImageStore::new on a new directory) and no build running
StoreInit ==
    /\ layer_files = {}
    /\ cache_index = EmptyFn
    /\ manifests = EmptyFn
    /\ configs = EmptyFn
    /\ alpine_cache = FALSE
    /\ pc = "idle"
    /\ forgefile = <<>>
    /\ image_ref \in ImageRefs
    /\ instructions = <<>>
    /\ ip = 1
    /\ layers = <<>>
    /\ prev_cache_key = "base"
    /\ cache_valid = TRUE
    /\ config = InitialConfig
    /\ rootfs = {}
    /\ log = <<>>
    /\ store0 = [layer_files |-> {}, cache_index |-> EmptyFn, alpine_cache |-> FALSE,
                 manifests |-> EmptyFn, configs |-> EmptyFn]
    /\ prev_build = NoBuild
    /\ nbuilds = 0
    /\ nremoved = 0

BuildInit ==
    /\ p_lines = <<>> /\ p_instructions = <<>> /\ p_input = <<>>
    /\ StoreInit
    /\ RunIdle
    /\ LiveIdle
    /\ FilesIdle

BuildNext ==
    \/ BuildStart
    \/ BuildFrom
    \/ BuildCopy
    \/ BuildRun
    \/ BuildWorkdir
    \/ BuildEnv
    \/ BuildEntrypoint
    \/ BuildFinish
    \/ BuildExit
    \/ RemoveLayerFile

SpecBuild == BuildInit /\ [][BuildNext]_vars

(***************************************************************************)
(* Builds on a store nothing else touches, one build more than SpecBuild   *)
(***************************************************************************)
RebuildStart == StartBuild(MaxBuilds + 1)

RebuildNext ==
    \/ RebuildStart
    \/ BuildFrom
    \/ BuildCopy
    \/ BuildRun
    \/ BuildWorkdir
    \/ BuildEnv
    \/ BuildEntrypoint
    \/ BuildFinish
    \/ BuildExit

SpecRebuild == BuildInit /\ [][RebuildNext]_vars

\* a store whose cache_index.json is absent or is not a JSON map
CorruptInit ==
    /\ p_lines = <<>> /\ p_instructions = <<>> /\ p_input = <<>>
    /\ layer_files = {}
    /\ cache_index \in {EmptyFn, CorruptIndexFile}
    /\ manifests = EmptyFn
    /\ configs = EmptyFn
    /\ alpine_cache = FALSE
    /\ pc = "idle"
    /\ forgefile = <<>>
    /\ image_ref \in ImageRefs
    /\ instructions = <<>>
    /\ ip = 1
    /\ layers = <<>>
    /\ prev_cache_key = "base"
    /\ cache_valid = TRUE
    /\ config = InitialConfig
    /\ rootfs = {}
    /\ log = <<>>
    /\ store0 = [layer_files |-> {}, cache_index |-> cache_index,
                 alpine_cache |-> FALSE, manifests |-> EmptyFn,
                 configs |-> EmptyFn]
    /\ prev_build = NoBuild
    /\ nbuilds = 0
    /\ nremoved = 0
    /\ RunIdle
    /\ LiveIdle
    /\ FilesIdle

CorruptStart == StartBuild(MaxBuilds)

CorruptNext ==
    \/ CorruptStart
    \/ BuildFrom
    \/ BuildCopy
    \/ BuildRun
    \/ BuildWorkdir
    \/ BuildEnv
    \/ BuildEntrypoint
    \/ BuildFinish
    \/ BuildExit

SpecCorrupt == CorruptInit /\ [][CorruptNext]_vars

(***************************************************************************)
(* Forgefile::parse alone, one line of content.lines() per step            *)
(***************************************************************************)
CommandWords ==
    { <<"F","R","O","M">>, <<"C","O","P","Y">>, <<"R","u","n">>,
      <<"W","O","R","K","D","I","R">>, <<"E","N","V">>, <<"e","n","v">>,
      <<"E","N","T","R","Y","P","O","I","N","T">>, <<"A","D","D">>, <<"#">> }

ArgChars == {" ", "=", "a", "[", "]", ",", "\""}

ArgTexts == UNION {[1..n -> ArgChars] : n \in 0..MaxArgLen}

\* a command word alone, or a command word, a space and an argument text
GeneratedLines ==
    CommandWords \cup {w \o <<" ">> \o a : w \in CommandWords, a \in ArgTexts}

\* lines with white space around them, a tab for the space, mixed case
L_Blank        == <<>>
L_Spaces       == <<" ", "\t", " ">>
L_TabComment   == <<"\t", "#", "R","U","N"," ","a">>
L_TabRun       == <<"R","U","N","\t","a">>
L_IndentedFrom == <<" ", "\t", "f","R","o","M"," ","a"," ","b"," ">>
L_EntryMixed   == <<"e","n","T","R","Y","p","o","i","n","t"," "," ","[",
                    " ","\"","a"," ","\"",",",",","\t","\"","\"",",",
                    "b","\"","\"","]"," ">>
L_EntryBare    == <<"E","N","T","R","Y","P","O","I","N","T"," ","a"," ","b">>

RecognitionFile ==
    <<L_Blank, L_IndentedFrom, L_TabComment, L_TabRun, L_EntryMixed, L_RunA,
      L_Spaces, L_EntryBare, L_EnvK1>>

ParseInputs ==
    BuildFiles \cup {<<l>> : l \in GeneratedLines \cup {L_EnvFoo}}
               \cup {RecognitionFile}

ParseInit ==
    /\ p_input \in ParseInputs
    /\ p_lines = p_input
    /\ p_instructions = <<>>
    /\ StoreInit
    /\ RunIdle
    /\ LiveIdle
    /\ FilesIdle

\* one turn of `for line in content.lines()`
ParseNextLine ==
    /\ p_lines # <<>>
    /\ p_instructions' = parse_line(p_instructions, Head(p_lines))
    /\ p_lines' = Tail(p_lines)
    /\ UNCHANGED <<p_input, storeVars, buildVars, histVars, restVars>>

ParseNext == ParseNextLine

SpecParse == ParseInit /\ [][ParseNext]_vars

(***************************************************************************)
(* The store's files as text: serde_json::to_string_pretty and from_str    *)
(* for ImageManifest, ImageConfig and the cache index, and the functions   *)
(* of ImageStore that write and read them (src/image.rs).  A file is the   *)
(* sequence of its characters.  from_str reads the escapes that            *)
(* to_string_pretty writes for the characters used here.                   *)
(***************************************************************************)
Q  == "\""
BS == "\\"
NL == "\n"

RECURSIVE EscapeJson(_)
\* the characters of a JSON string for the characters of s
EscapeJson(s) ==
    IF s = <<>> THEN <<>>
    ELSE (CASE s[1] = Q  -> <<BS, Q>>
            [] s[1] = BS -> <<BS, BS>>
            [] s[1] = NL -> <<BS, "n">>
            [] OTHER     -> <<s[1]>>) \o EscapeJson(Tail(s))

JsonString(s) == <<Q>> \o EscapeJson(s) \o <<Q>>

\* the pretty printer's line break and indentation
Indent(depth) == <<NL>> \o [i \in 1..(2 * depth) |-> " "]

RECURSIVE JoinItems(_, _)
\* each text on its own line at `depth`, with commas between
JoinItems(texts, depth) ==
    IF texts = <<>> THEN <<>>
    ELSE Indent(depth) \o texts[1]
         \o (IF Len(texts) > 1 THEN <<",">> ELSE <<>>)
         \o JoinItems(Tail(texts), depth)

\* a Vec<String> at nesting `depth`
JsonStringArray(items, depth) ==
    IF items = <<>> THEN <<"[", "]">>
    ELSE <<"[">>
         \o JoinItems([n \in DOMAIN items |-> JsonString(items[n])], depth + 1)
         \o Indent(depth) \o <<"]">>

\* a struct or a map: `members` is a sequence of [key, text]
JsonObject(members, depth) ==
    IF members = <<>> THEN <<"{", "}">>
    ELSE <<"{">>
         \o JoinItems([n \in DOMAIN members |->
                          JsonString(members[n].key) \o <<":", " ">>
                          \o members[n].text], depth + 1)
         \o Indent(depth) \o <<"}">>

K_name        == <<"n","a","m","e">>
K_tag         == <<"t","a","g">>
K_layers      == <<"l","a","y","e","r","s">>
K_entrypoint  == <<"e","n","t","r","y","p","o","i","n","t">>
K_env         == <<"e","n","v">>
K_working_dir == <<"w","o","r","k","i","n","g","_","d","i","r">>

\* serde_json::to_string_pretty(manifest)
ManifestJson(manifest) ==
    JsonObject(<<[key |-> K_name,   text |-> JsonString(manifest.name)],
                 [key |-> K_tag,    text |-> JsonString(manifest.tag)],
                 [key |-> K_layers, text |-> JsonStringArray(manifest.layers, 1)]>>,
               0)

\* serde_json::to_string_pretty(&config)
ConfigJson(cfg) ==
    JsonObject(<<[key |-> K_entrypoint,  text |-> JsonStringArray(cfg.entrypoint, 1)],
                 [key |-> K_env,         text |-> JsonStringArray(cfg.env, 1)],
                 [key |-> K_working_dir, text |-> JsonString(cfg.working_dir)]>>,
               0)

\* serde_json::to_string_pretty(index), the HashMap iterated in `order`
IndexJson(index, order) ==
    JsonObject([n \in DOMAIN order |->
                   [key |-> order[n], text |-> JsonString(index[order[n]])]], 0)

\* the orders in which a HashMap with these keys can be iterated
Orders(keys) ==
    {o \in [1..Cardinality(keys) -> keys] :
        \A i, j \in 1..Cardinality(keys) : i # j => o[i] # o[j]}

\* ---- from_str
Fail == [ok |-> FALSE]

Parsed(val, rest) == [ok |-> TRUE, val |-> val, rest |-> rest]

\* F applied to the value of v, v being computed once
Bind(v, F(_)) == CHOOSE y \in {F(x) : x \in {v}} : TRUE

RECURSIVE SkipWs(_)
SkipWs(s) ==
    IF s # <<>> /\ s[1] \in {" ", NL, "\t", "\r"}
    THEN Bind(Tail(s), LAMBDA t : SkipWs(t))
    ELSE s

\* one step of the string body: the character read and how many it took
Unescaped(s) ==
    IF s[1] # BS THEN [ok |-> s[1] # NL, char |-> s[1], took |-> 1]
    ELSE IF Len(s) < 2 THEN [ok |-> FALSE]
    ELSE IF s[2] \in {Q, BS, "/"} THEN [ok |-> TRUE, char |-> s[2], took |-> 2]
    ELSE IF s[2] = "n" THEN [ok |-> TRUE, char |-> NL, took |-> 2]
    ELSE [ok |-> FALSE]

RECURSIVE ScanString(_, _)
\* the characters after an opening quote, up to the closing one
ScanString(s, acc) ==
    IF s = <<>> THEN Fail
    ELSE IF s[1] = Q THEN Parsed(acc, Tail(s))
    ELSE Bind(Unescaped(s), LAMBDA c :
            IF ~c.ok THEN Fail
            ELSE Bind(SubSeq(s, c.took + 1, Len(s)), LAMBDA rest :
                 Bind(Append(acc, c.char), LAMBDA all :
                      ScanString(rest, all))))

ParseString(s0) ==
    Bind(SkipWs(s0), LAMBDA s :
         IF s # <<>> /\ s[1] = Q
         THEN Bind(Tail(s), LAMBDA t : ScanString(t, <<>>))
         ELSE Fail)

\* after an element or a member: the separator, the closing character, or
\* neither
After(rest, close) ==
    Bind(SkipWs(rest), LAMBDA t :
         IF t = <<>> THEN [sep |-> "bad"]
         ELSE IF t[1] = "," THEN [sep |-> "more", rest |-> Tail(t)]
         ELSE IF t[1] = close THEN [sep |-> "end", rest |-> Tail(t)]
         ELSE [sep |-> "bad"])

RECURSIVE ParseArrayItems(_, _)
ParseArrayItems(s, acc) ==
    Bind(ParseString(s), LAMBDA r :
         IF ~r.ok THEN Fail
         ELSE Bind(After(r.rest, "]"), LAMBDA a :
              Bind(Append(acc, r.val), LAMBDA all :
                   IF a.sep = "more" THEN ParseArrayItems(a.rest, all)
                   ELSE IF a.sep = "end" THEN Parsed(all, a.rest)
                   ELSE Fail)))

ParseStringArray(s0) ==
    Bind(SkipWs(s0), LAMBDA s :
         IF s = <<>> \/ s[1] # "[" THEN Fail
         ELSE Bind(SkipWs(Tail(s)), LAMBDA t :
                   IF t # <<>> /\ t[1] = "]" THEN Parsed(<<>>, Tail(t))
                   ELSE ParseArrayItems(t, <<>>)))

\* a value: a string or an array of strings, tagged with its kind
ParseValue(s0) ==
    Bind(SkipWs(s0), LAMBDA s :
         IF s = <<>> THEN Fail
         ELSE IF s[1] = Q
              THEN Bind(ParseString(s), LAMBDA r :
                        IF r.ok
                        THEN Parsed([kind |-> "string", v |-> r.val], r.rest)
                        ELSE Fail)
         ELSE IF s[1] = "["
              THEN Bind(ParseStringArray(s), LAMBDA r :
                        IF r.ok
                        THEN Parsed([kind |-> "array", v |-> r.val], r.rest)
                        ELSE Fail)
         ELSE Fail)

\* "key": value
ParseMember(s) ==
    Bind(ParseString(s), LAMBDA k :
         IF ~k.ok THEN Fail
         ELSE Bind(SkipWs(k.rest), LAMBDA t :
                   IF t = <<>> \/ t[1] # ":" THEN Fail
                   ELSE Bind(ParseValue(Tail(t)), LAMBDA v :
                             IF ~v.ok THEN Fail
                             ELSE Parsed([key |-> k.val, value |-> v.val],
                                         v.rest))))

RECURSIVE ParseMembers(_, _)
ParseMembers(s, acc) ==
    Bind(ParseMember(s), LAMBDA m :
         IF ~m.ok THEN Fail
         ELSE Bind(After(m.rest, "}"), LAMBDA a :
              Bind(Append(acc, m.val), LAMBDA all :
                   IF a.sep = "more" THEN ParseMembers(a.rest, all)
                   ELSE IF a.sep = "end" THEN Parsed(all, a.rest)
                   ELSE Fail)))

\* a whole document that is one object: its members in order
ParseDocument(text) ==
    Bind(SkipWs(text), LAMBDA s :
         IF s = <<>> \/ s[1] # "{" THEN Fail
         ELSE Bind(SkipWs(Tail(s)), LAMBDA t :
              Bind(IF t # <<>> /\ t[1] = "}" THEN Parsed(<<>>, Tail(t))
                   ELSE ParseMembers(t, <<>>), LAMBDA r :
                   IF r.ok /\ SkipWs(r.rest) = <<>> THEN r ELSE Fail)))

\* the members of `doc` with key k
Members(doc, k) == SelectSeq(doc, LAMBDA m : m.key = k)

\* a derived Deserialize takes each field once, of its type
HasField(doc, k, kind) ==
    /\ Len(Members(doc, k)) = 1
    /\ Members(doc, k)[1].value.kind = kind

Field(doc, k) == Members(doc, k)[1].value.v

\* serde_json::from_str::<ImageManifest>
ManifestFromStr(text) ==
    Bind(ParseDocument(text), LAMBDA r :
    IF /\ r.ok
       /\ HasField(r.val, K_name, "string")
       /\ HasField(r.val, K_tag, "string")
       /\ HasField(r.val, K_layers, "array")
    THEN [ok |-> TRUE,
          val |-> [name   |-> Field(r.val, K_name),
                   tag    |-> Field(r.val, K_tag),
                   layers |-> Field(r.val, K_layers)]]
    ELSE Fail)

\* serde_json::from_str::<ImageConfig>
ConfigFromStr(text) ==
    Bind(ParseDocument(text), LAMBDA r :
    IF /\ r.ok
       /\ HasField(r.val, K_entrypoint, "array")
       /\ HasField(r.val, K_env, "array")
       /\ HasField(r.val, K_working_dir, "string")
    THEN [ok |-> TRUE,
          val |-> [entrypoint  |-> Field(r.val, K_entrypoint),
                   env         |-> Field(r.val, K_env),
                   working_dir |-> Field(r.val, K_working_dir)]]
    ELSE Fail)

\* serde_json::from_str::<HashMap<String, String>>: a later member with the
\* same key replaces an earlier one
IndexFromStr(text) ==
    Bind(ParseDocument(text), LAMBDA r :
    IF r.ok /\ \A n \in DOMAIN r.val : r.val[n].value.kind = "string"
    THEN [ok |-> TRUE,
          val |-> [k \in {r.val[n].key : n \in DOMAIN r.val} |->
                      LET last == CHOOSE n \in DOMAIN r.val :
                                      /\ r.val[n].key = k
                                      /\ \A m \in DOMAIN r.val :
                                            r.val[m].key = k => m <= n
                      IN  r.val[last].value.v]]
    ELSE Fail)

\* ---- the values given to the store, small
S_a     == <<"a">>
S_quote == <<Q, ",">>
S_slash == <<BS, "n">>
D_1     == <<"s", ":", "1">>
D_2     == <<"s", ":", "2">>
CK_1    == <<"c", ":", "1">>
CK_2    == <<"c", ":", Q>>

StoreNames == {S_a}

StoreTags == {S_quote}

StoreManifests ==
    [name : StoreNames, tag : StoreTags,
     layers : {<<>>, <<D_1, D_2>>, <<S_slash>>}]

StoreConfigs ==
    {[entrypoint |-> <<>>, env |-> <<S_a>>, working_dir |-> S_a],
     [entrypoint |-> <<S_a, S_quote>>, env |-> <<S_a, S_slash>>,
      working_dir |-> S_slash],
     [entrypoint |-> <<S_slash>>, env |-> <<>>, working_dir |-> S_quote]}

StoreIndexes ==
    {EmptyFn,
     [k \in {CK_1} |-> D_1],
     [k \in {CK_1, CK_2} |-> IF k = CK_1 THEN D_2 ELSE S_slash]}

\* manifests/<name>/<tag>, manifests/<name>/<tag>.config, cache_index.json
ManifestPath(name, tag) == <<"manifests", name, tag>>

DotConfig == <<".", "c", "o", "n", "f", "i", "g">>

ConfigPath(name, tag) == <<"manifests", name, tag \o DotConfig>>

IndexPath == <<"cache_index.json">>

\* what a write that fails may leave of `text`: nothing, half, all but the end
Partial(text) ==
    {SubSeq(text, 1, n) : n \in {0, Len(text) \div 2, Len(text) - 1}}

\* path now holds text
Written(path, text) ==
    [p \in DOMAIN store_files \cup {path} |->
        IF p = path THEN text ELSE store_files[p]]

\* the last save to path that returned Ok was given `value`
Recorded(path, kind, value) ==
    [p \in DOMAIN f_saved \cup {path} |->
        IF p = path THEN [kind |-> kind, value |-> value] ELSE f_saved[p]]

\* no save to path that returned Ok describes the file any more
Forgotten(path) == [p \in DOMAIN f_saved \ {path} |-> f_saved[p]]

StoreUnchanged ==
    UNCHANGED <<parseVars, storeVars, buildVars, histVars, runVars, liveVars>>

\* ImageStore::save_manifest: create_dir_all?, File::create, `file?`,
\* `let _ = write_all`, Ok(())
SaveManifest ==
    /\ \E manifest \in StoreManifests :
         LET path == ManifestPath(manifest.name, manifest.tag)
             json == ManifestJson(manifest)
         IN  \/ \* create_dir_all or File::create fails: Err, the file untouched
                /\ f_last' = [op |-> "save_manifest", path |-> path, result |-> "Err"]
                /\ UNCHANGED <<store_files, f_saved>>
             \/ \* all of json is written: Ok
                /\ store_files' = Written(path, json)
                /\ f_saved' = Recorded(path, "manifest", manifest)
                /\ f_last' = [op |-> "save_manifest", path |-> path, result |-> "Ok"]
             \/ \* write_all fails and its result is dropped: Ok
                \E text \in Partial(json) :
                   /\ store_files' = Written(path, text)
                   /\ f_saved' = Recorded(path, "manifest", manifest)
                   /\ f_last' = [op |-> "save_manifest", path |-> path, result |-> "Ok"]
    /\ StoreUnchanged

\* ImageStore::load_manifest: read_to_string?, from_str?
LoadManifest ==
    /\ \E name \in StoreNames, tag \in StoreTags :
          LET path == ManifestPath(name, tag) IN
          f_last' =
              IF path \notin DOMAIN store_files
              THEN [op |-> "load_manifest", path |-> path, result |-> "Err"]
              ELSE LET r == ManifestFromStr(store_files[path]) IN
                   IF r.ok
                   THEN [op |-> "load_manifest", path |-> path,
                         result |-> "Ok", value |-> r.val]
                   ELSE [op |-> "load_manifest", path |-> path, result |-> "Err"]
    /\ UNCHANGED <<store_files, f_saved>>
    /\ StoreUnchanged

\* ImageStore::save_cache_index: to_string_pretty?, fs::write?
SaveCacheIndex ==
    /\ \E index \in StoreIndexes : \E order \in Orders(DOMAIN index) :
         LET json == IndexJson(index, order) IN
             \/ /\ store_files' = Written(IndexPath, json)
                /\ f_saved' = Recorded(IndexPath, "index", index)
                /\ f_last' = [op |-> "save_cache_index", path |-> IndexPath,
                              result |-> "Ok"]
             \/ \* fs::write fails, at the open or part-way: Err
                /\ \/ UNCHANGED <<store_files, f_saved>>
                   \/ \E text \in Partial(json) :
                         /\ store_files' = Written(IndexPath, text)
                         /\ f_saved' = Forgotten(IndexPath)
                /\ f_last' = [op |-> "save_cache_index", path |-> IndexPath,
                              result |-> "Err"]
    /\ StoreUnchanged

\* ImageStore::load_cache_index: the empty map when the file cannot be read
\* or is not a JSON map of strings
LoadCacheIndex ==
    /\ f_last' =
          [op |-> "load_cache_index", path |-> IndexPath, result |-> "Ok",
           value |-> IF IndexPath \notin DOMAIN store_files THEN EmptyFn
                     ELSE LET r == IndexFromStr(store_files[IndexPath]) IN
                          IF r.ok THEN r.val ELSE EmptyFn]
    /\ UNCHANGED <<store_files, f_saved>>
    /\ StoreUnchanged

\* build: to_string_pretty(&config)?, fs::write(config_path, config_json)?
WriteConfig ==
    /\ \E name \in StoreNames, tag \in StoreTags, cfg \in StoreConfigs :
         LET path == ConfigPath(name, tag)
             json == ConfigJson(cfg)
         IN  \/ /\ store_files' = Written(path, json)
                /\ f_saved' = Recorded(path, "config", cfg)
                /\ f_last' = [op |-> "write_config", path |-> path, result |-> "Ok"]
             \/ /\ \/ UNCHANGED <<store_files, f_saved>>
                   \/ \E text \in Partial(json) :
                         /\ store_files' = Written(path, text)
                         /\ f_saved' = Forgotten(path)
                /\ f_last' = [op |-> "write_config", path |-> path, result |-> "Err"]
    /\ StoreUnchanged

\* ImageStore::load_config: read_to_string?, from_str?
LoadConfig ==
    /\ \E name \in StoreNames, tag \in StoreTags :
          LET path == ConfigPath(name, tag) IN
          f_last' =
              IF path \notin DOMAIN store_files
              THEN [op |-> "load_config", path |-> path, result |-> "Err"]
              ELSE LET r == ConfigFromStr(store_files[path]) IN
                   IF r.ok
                   THEN [op |-> "load_config", path |-> path,
                         result |-> "Ok", value |-> r.val]
                   ELSE [op |-> "load_config", path |-> path, result |-> "Err"]
    /\ UNCHANGED <<store_files, f_saved>>
    /\ StoreUnchanged

\* ImageStore::new on a new directory
FilesInit ==
    /\ FilesIdle
    /\ LiveIdle
    /\ RunIdle
    /\ p_lines = <<>> /\ p_instructions = <<>> /\ p_input = <<>>
    /\ StoreInit

FilesNext ==
    \/ SaveManifest
    \/ LoadManifest
    \/ SaveCacheIndex
    \/ LoadCacheIndex
    \/ WriteConfig
    \/ LoadConfig

SpecStore == FilesInit /\ [][FilesNext]_vars

(***************************************************************************)
(* The lifecycle engine: run_container_from_image and run_container        *)
(* (src/container.rs), with cgroups.rs, namespace.rs, network.rs and       *)
(* filesystem.rs.  The processes are M (main of the interactive mode; it   *)
(* forks and waits), H (the process that runs the engine), C (the child H  *)
(* forks, PID 1 of the container) and X (a process that is not of this     *)
(* invocation).  A step of H and a step of C interleave freely after the   *)
(* fork: the two share no memory and the code has no synchronisation       *)
(* between them other than waitpid.                                        *)
(***************************************************************************)
\* process::exit codes: 101 for a panic, 137 for death by SIGKILL
ExitPanic == 101
ExitKilled == 137

\* is_cgroup_v2: one unified directory, or one directory per controller
Controllers(version) ==
    IF version = 2 THEN <<"unified">> ELSE <<"cpu", "memory", "pids">>

ControllerSet(version) ==
    {Controllers(version)[n] : n \in DOMAIN Controllers(version)}

\* the pids cgroup.procs of controller c lists
Listed(members, living, c) == {p \in living : <<c, p>> \in members}

\* what /proc/<C>/ns/net leads to when it is opened
NetnsOfChild ==
    IF "C" \notin alive THEN "gone"
    ELSE IF net_unshared THEN "container_ns" ELSE "host_ns"

\* the process that calls cleanup_cgroup: H in the image run path
\* (container.rs:72), main in the interactive mode (main.rs:55)
Cleaner == IF r_mode = "image" THEN "H" ELSE "M"

\* process p ends with `code`
Terminate(p, code) ==
    /\ alive' = alive \ {p}
    /\ exit_code' = [exit_code EXCEPT ![p] = code]

\* the order of the child's steps (container.rs:39-44, 78-99;
\* filesystem.rs:174-189)
ChildAfter_join_last(mode, step) ==
    CASE step = "unshare_net"  -> "create_dirs"
      [] step = "join_cgroup"  -> IF mode = "image" THEN "apply_env" ELSE "exec"
      [] step = "create_dirs"  -> "copy_bash"
      [] step = "copy_bash"    -> "bind_mount"
      [] step = "bind_mount"   -> "pivot"
      [] step = "pivot"        -> "mount_proc"
      [] step = "mount_proc"   -> "mount_sys"
      [] step = "mount_sys"    -> "mount_dev"
      [] step = "mount_dev"    -> "mount_tmp"
      [] step = "mount_tmp"    -> "join_cgroup"
      [] step = "apply_env"    -> "chdir"
      [] step = "chdir"        -> "exec"
      [] step = "exec"         -> "running"

ChildAfter(mode, step) ==
    CASE step = "unshare_net"  -> "join_cgroup"
      [] step = "join_cgroup"  -> "create_dirs"
      [] step = "create_dirs"  -> "copy_bash"
      [] step = "copy_bash"    -> "bind_mount"
      [] step = "bind_mount"   -> "pivot"
      [] step = "pivot"        -> "mount_proc"
      [] step = "mount_proc"   -> "mount_sys"
      [] step = "mount_sys"    -> "mount_dev"
      [] step = "mount_dev"    -> "mount_tmp"
      [] step = "mount_tmp"    -> IF mode = "image" THEN "apply_env" ELSE "exec"
      [] step = "apply_env"    -> "chdir"
      [] step = "chdir"        -> "exec"
      [] step = "exec"         -> "running"

\* ---- H: run_container_from_image / run_container

\* H completes `step` and goes on to `next`
HostDone(step, next) ==
    /\ h_trace' = Append(h_trace, step)
    /\ h_pc' = next

\* H ends at `step`: process::exit(code), or a panic
HostEnds(step, code) ==
    /\ h_pc' = IF code = ExitPanic THEN "panicked" ELSE "exited"
    /\ Terminate("H", code)
    /\ h_trace' = h_trace

\* setup_cgroups: create_cgroup_hierarchy, set_resource_limits,
\* add_process_to_cgroup(process::id()); every failure is only logged
\* the image `run` is asked for, and what its store may hold of it: nothing,
\* one of the two files, both, or both with a config cut short
RunName == S_a
RunTag == S_quote
RunManifest == [name |-> RunName, tag |-> RunTag, layers |-> <<D_1, D_2>>]
RunConfig == [entrypoint |-> <<S_a>>, env |-> <<S_a>>, working_dir |-> S_slash]

RunStores ==
    LET mpath == ManifestPath(RunName, RunTag)
        cpath == ConfigPath(RunName, RunTag)
        mtext == ManifestJson(RunManifest)
        ctext == ConfigJson(RunConfig)
    IN  {EmptyFn,
         [p \in {mpath} |-> mtext],
         [p \in {cpath} |-> ctext],
         [p \in {mpath, cpath} |-> IF p = mpath THEN mtext ELSE ctext],
         [p \in {mpath, cpath} |->
             IF p = mpath THEN mtext ELSE SubSeq(ctext, 1, Len(ctext) \div 2)]}

\* run_image as it would be if it went on without the image
HostLoadImage_unchecked ==
    /\ h_pc = "run_image"
    /\ h_pc' = "create_rootfs"
    /\ UNCHANGED <<envVars, procVars, cgVars, m_pc, c_pc, h_trace, c_trace,
                   clVars, netVars, rootfs_dir, fatal_failed, nforeign>>

\* run_image up to the image being loaded (its steps are not steps of the
\* engine and are not entered in h_trace): load_manifest(name, tag)?, then
\* read_to_string(config_path)? and serde_json::from_str?.  An Err comes back
\* to main, which prints it and calls process::exit(1).
HostLoadImage ==
    /\ h_pc = "run_image"
    /\ LET mpath == ManifestPath(RunName, RunTag)
           cpath == ConfigPath(RunName, RunTag)
           loaded == /\ mpath \in DOMAIN store_files
                     /\ ManifestFromStr(store_files[mpath]).ok
                     /\ cpath \in DOMAIN store_files
                     /\ ConfigFromStr(store_files[cpath]).ok
       IN  IF loaded THEN /\ h_pc' = "create_rootfs"
                          /\ UNCHANGED <<procVars, h_trace, fatal_failed>>
                     ELSE /\ HostEnds("run_image", 1)
                          /\ fatal_failed' = TRUE
    /\ UNCHANGED <<envVars, cgVars, m_pc, c_pc, c_trace, clVars, netVars,
                   rootfs_dir, nforeign>>

\* run_image from create_dir_all(/tmp/container-<uuid>) to the call of
\* run_container_from_image: the layers are unpacked into the directory
HostCreateRootfs ==
    /\ h_pc = "create_rootfs"
    /\ rootfs_dir' = TRUE
    /\ h_pc' = "setup_cgroups"
    /\ UNCHANGED <<envVars, procVars, cgVars, m_pc, c_pc, h_trace, c_trace,
                   clVars, netVars, fatal_failed, nforeign>>

HostSetupCgroups ==
    /\ h_pc = "setup_cgroups"
    /\ IF cg_writable
       THEN /\ cg_dirs' = ControllerSet(cg_version)
            /\ cg_members' = cg_members \cup
                               {<<c, "H">> : c \in ControllerSet(cg_version)}
       ELSE UNCHANGED <<cg_dirs, cg_members>>
    /\ HostDone("setup_cgroups", "ip_forward")
    /\ UNCHANGED <<envVars, procVars, m_pc, c_pc, c_trace, clVars, netVars,
                   rootfs_dir, fatal_failed, nforeign>>

\* let _ = fs::write("/proc/sys/net/ipv4/ip_forward", "1")
HostIpForward ==
    /\ h_pc = "ip_forward"
    /\ HostDone("ip_forward", "detect_iface")
    /\ UNCHANGED <<envVars, procVars, cgVars, m_pc, c_pc, c_trace, clVars,
                   netVars, rootfs_dir, fatal_failed, nforeign>>

\* get_default_interface: `ip route show default`, .expect on the spawn
HostDetectIface ==
    /\ h_pc = "detect_iface"
    /\ \E spawned \in BOOLEAN :
          IF spawned
          THEN HostDone("detect_iface", "unshare") /\ UNCHANGED procVars
          ELSE HostEnds("detect_iface", ExitPanic)
    /\ UNCHANGED <<envVars, cgVars, m_pc, c_pc, c_trace, clVars, netVars,
                   rootfs_dir, fatal_failed, nforeign>>

\* create_namespaces_without_network: unshare(PID|MNT|UTS), exit(1) on Err
HostUnshare ==
    /\ h_pc = "unshare"
    /\ \E ok \in BOOLEAN :
          IF ok
          THEN /\ HostDone("unshare", "fork")
               /\ UNCHANGED <<procVars, fatal_failed>>
          ELSE /\ HostEnds("unshare", 1)
               /\ fatal_failed' = TRUE
    /\ UNCHANGED <<envVars, cgVars, m_pc, c_pc, c_trace, clVars, netVars,
                   rootfs_dir, nforeign>>

\* fork: the child starts in its parent's cgroups; Err => exit(1)
HostFork ==
    /\ h_pc = "fork"
    /\ \E ok \in BOOLEAN :
          IF ok
          THEN /\ HostDone("fork", "create_veth_pair")
               /\ alive' = alive \cup {"C"}
               /\ c_pc' = "unshare_net"
               /\ cg_members' = cg_members \cup
                     {<<c, "C">> : c \in {d \in ControllerSet(cg_version) :
                                             <<d, "H">> \in cg_members}}
               /\ UNCHANGED <<exit_code, fatal_failed>>
          ELSE /\ HostEnds("fork", 1)
               /\ fatal_failed' = TRUE
               /\ UNCHANGED <<c_pc, cg_members>>
    /\ UNCHANGED <<envVars, cg_dirs, m_pc, c_trace, clVars, netVars,
                   rootfs_dir, nforeign>>

\* run_ip at `step`: .expect on the spawn, a non-zero status is only logged
\* run_ip as it would be if a non-zero exit of `ip` ended the host process
RunIp_fatal(step, next) ==
    /\ h_pc = step
    /\ \E r \in {"ok", "fail", "nospawn"} :
          CASE r = "ok"      -> HostDone(step, next) /\ UNCHANGED procVars
            [] r = "fail"    -> HostEnds(step, 1)
            [] r = "nospawn" -> HostEnds(step, ExitPanic)
    /\ UNCHANGED <<envVars, cgVars, m_pc, c_pc, c_trace, clVars, netVars,
                   rootfs_dir, fatal_failed, nforeign>>

RunIp(step, next) ==
    /\ h_pc = step
    /\ \E r \in {"ok", "fail", "nospawn"} :
          IF r = "nospawn"
          THEN HostEnds(step, ExitPanic)
          ELSE HostDone(step, next) /\ UNCHANGED procVars
    /\ UNCHANGED <<envVars, cgVars, m_pc, c_pc, c_trace, clVars, netVars,
                   rootfs_dir, fatal_failed, nforeign>>

\* create_veth_pair
HostCreateVethPair == RunIp("create_veth_pair", "mv_exists")

\* move_to_netns: return when /proc/<pid>/ns/net does not exist
HostMoveExists ==
    /\ h_pc = "mv_exists"
    /\ IF NetnsOfChild = "gone"
       THEN HostDone("mv_exists", "host_addr")
       ELSE HostDone("mv_exists", "mv_symlink")
    /\ UNCHANGED <<envVars, procVars, cgVars, m_pc, c_pc, c_trace, clVars,
                   netVars, rootfs_dir, fatal_failed, nforeign>>

\* move_to_netns: remove_file, symlink; return when the symlink fails
HostMoveSymlink ==
    /\ h_pc = "mv_symlink"
    /\ \E ok \in BOOLEAN :
          IF ok
          THEN netns_link' = TRUE /\ HostDone("mv_symlink", "mv_link_set")
          ELSE netns_link' = FALSE /\ HostDone("mv_symlink", "host_addr")
    /\ UNCHANGED <<envVars, procVars, cgVars, m_pc, c_pc, c_trace, clVars,
                   net_unshared, peer_in, cc_targets, rootfs_dir,
                   fatal_failed, nforeign>>

\* move_to_netns: ip link set <peer> netns cnt-<pid>; the name is resolved
\* through the symlink when ip runs
HostMoveLinkSet ==
    /\ h_pc = "mv_link_set"
    /\ \E r \in {"ok", "fail", "nospawn"} :
          /\ r = "ok" => NetnsOfChild # "gone"
          /\ IF r = "nospawn"
             THEN HostEnds("mv_link_set", ExitPanic)
             ELSE HostDone("mv_link_set", "mv_check") /\ UNCHANGED procVars
          /\ peer_in' = IF r = "ok" THEN NetnsOfChild ELSE peer_in
    /\ UNCHANGED <<envVars, cgVars, m_pc, c_pc, c_trace, clVars,
                   net_unshared, cc_targets, netns_link, rootfs_dir,
                   fatal_failed, nforeign>>

\* move_to_netns: ip link show, its result only printed
HostMoveCheck ==
    /\ h_pc = "mv_check"
    /\ HostDone("mv_check", "mv_remove")
    /\ UNCHANGED <<envVars, procVars, cgVars, m_pc, c_pc, c_trace, clVars,
                   netVars, rootfs_dir, fatal_failed, nforeign>>

\* move_to_netns: remove_file(netns_link).ok()
HostMoveRemove ==
    /\ h_pc = "mv_remove"
    /\ netns_link' = FALSE
    /\ HostDone("mv_remove", "host_addr")
    /\ UNCHANGED <<envVars, procVars, cgVars, m_pc, c_pc, c_trace, clVars,
                   net_unshared, peer_in, cc_targets, rootfs_dir,
                   fatal_failed, nforeign>>

\* configure_host_veth
HostAddr == RunIp("host_addr", "host_up")

HostUp == RunIp("host_up", "cc_symlink")

\* configure_container_veth: remove_file, symlink(..).ok()
HostConfSymlink ==
    /\ h_pc = "cc_symlink"
    /\ \E ok \in BOOLEAN : netns_link' = ok
    /\ HostDone("cc_symlink", "cc_addr")
    /\ UNCHANGED <<envVars, procVars, cgVars, m_pc, c_pc, c_trace, clVars,
                   net_unshared, peer_in, cc_targets, rootfs_dir,
                   fatal_failed, nforeign>>

\* configure_container_veth: ip netns exec cnt-<pid> ip ... ; the command
\* acts in the namespace the symlink leads to when ip runs
ConfIp(step, next) ==
    /\ h_pc = step
    /\ \E r \in {"ok", "fail", "nospawn"} :
          /\ r = "ok" => (netns_link /\ NetnsOfChild # "gone")
          /\ IF r = "nospawn"
             THEN HostEnds(step, ExitPanic)
             ELSE HostDone(step, next) /\ UNCHANGED procVars
          /\ cc_targets' = IF r = "ok" THEN cc_targets \cup {NetnsOfChild}
                           ELSE cc_targets
    /\ UNCHANGED <<envVars, cgVars, m_pc, c_pc, c_trace, clVars,
                   net_unshared, peer_in, netns_link, rootfs_dir,
                   fatal_failed, nforeign>>

HostConfAddr == ConfIp("cc_addr", "cc_up")

HostConfUp == ConfIp("cc_up", "cc_lo")

HostConfLo == ConfIp("cc_lo", "cc_route")

HostConfRoute == ConfIp("cc_route", "cc_remove")

\* configure_container_veth: remove_file(netns_link).ok()
HostConfRemove ==
    /\ h_pc = "cc_remove"
    /\ netns_link' = FALSE
    /\ HostDone("cc_remove", "nat_masquerade")
    /\ UNCHANGED <<envVars, procVars, cgVars, m_pc, c_pc, c_trace, clVars,
                   net_unshared, peer_in, cc_targets, rootfs_dir,
                   fatal_failed, nforeign>>

\* run_iptables at `step`: .expect on the spawn, exit(1) on a non-zero status
RunIptables(step, next) ==
    /\ h_pc = step
    /\ \E r \in {"ok", "fail", "nospawn"} :
          CASE r = "ok"      -> /\ HostDone(step, next)
                                /\ UNCHANGED <<procVars, fatal_failed>>
            [] r = "fail"    -> /\ HostEnds(step, 1)
                                /\ fatal_failed' = TRUE
            [] r = "nospawn" -> /\ HostEnds(step, ExitPanic)
                                /\ fatal_failed' = TRUE
    /\ UNCHANGED <<envVars, cgVars, m_pc, c_pc, c_trace, clVars, netVars,
                   rootfs_dir, nforeign>>

\* enable_nat
HostNatMasquerade == RunIptables("nat_masquerade", "nat_forward_out")

HostNatForwardOut == RunIptables("nat_forward_out", "nat_forward_in")

HostNatForwardIn == RunIptables("nat_forward_in", "waitpid")

\* let _ = waitpid(child, None): returns when C has ended
HostWaitpid ==
    /\ h_pc = "waitpid"
    /\ "C" \notin alive
    /\ HostDone("waitpid", IF r_mode = "image" THEN "cleanup_cgroup"
                                               ELSE "remove_rootfs")
    /\ UNCHANGED <<envVars, procVars, cgVars, m_pc, c_pc, c_trace, clVars,
                   netVars, rootfs_dir, fatal_failed, nforeign>>

\* cleanup_cgroup is entered: the 100 ms sleep, then the first read
CleanupEnter ==
    /\ cl_pc' = "read"
    /\ cl_i' = 1
    /\ UNCHANGED <<cl_listed, cl_read, cl_killed, cl_removed, cl_post>>

\* run_container_from_image calls cleanup_cgroup(container_name)
HostCleanupCall ==
    /\ h_pc = "cleanup_cgroup"
    /\ h_pc' = "in_cleanup"
    /\ CleanupEnter
    /\ UNCHANGED <<envVars, procVars, cgVars, m_pc, c_pc, h_trace, c_trace,
                   netVars, rootfs_dir, fatal_failed, nforeign>>

\* cleanup_cgroup has returned to run_container_from_image
HostCleanupReturn ==
    /\ h_pc = "in_cleanup"
    /\ cl_pc = "returned"
    /\ HostDone("cleanup_cgroup", "remove_rootfs")
    /\ UNCHANGED <<envVars, procVars, cgVars, m_pc, c_pc, c_trace, clVars,
                   netVars, rootfs_dir, fatal_failed, nforeign>>

\* let _ = fs::remove_dir_all(rootfs)
HostRemoveRootfs ==
    /\ h_pc = "remove_rootfs"
    /\ rootfs_dir' = FALSE
    /\ HostDone("remove_rootfs", "exit")
    /\ UNCHANGED <<envVars, procVars, cgVars, m_pc, c_pc, c_trace, clVars,
                   netVars, fatal_failed, nforeign>>

\* process::exit(0)
HostExit ==
    /\ h_pc = "exit"
    /\ HostEnds("exit", 0)
    /\ UNCHANGED <<envVars, cgVars, m_pc, c_pc, c_trace, clVars, netVars,
                   rootfs_dir, fatal_failed, nforeign>>

\* ---- cleanup_cgroup, run by Cleaner

\* from controller cl_i on to the next controller, or to the next phase
CleanupAdvance(phase, next_phase) ==
    IF cl_i < Len(Controllers(cg_version))
    THEN cl_i' = cl_i + 1 /\ cl_pc' = phase
    ELSE cl_i' = 1 /\ cl_pc' = next_phase

\* fs::read_to_string(cgroup.procs) of controller cl_i
CleanupRead ==
    /\ cl_pc = "read"
    /\ Cleaner \in alive
    /\ LET c == Controllers(cg_version)[cl_i] IN
       IF c \in cg_dirs
       THEN /\ cl_listed' = Listed(cg_members, alive, c)
            /\ cl_read' = [cl_read EXCEPT ![c] = Listed(cg_members, alive, c)]
            /\ cl_pc' = "kill"
            /\ cl_i' = cl_i
       ELSE /\ CleanupAdvance("read", "remove")
            /\ UNCHANGED <<cl_listed, cl_read>>
    /\ UNCHANGED <<envVars, procVars, cgVars, m_pc, h_pc, c_pc, h_trace,
                   c_trace, cl_killed, cl_removed, cl_post, netVars,
                   rootfs_dir, fatal_failed, nforeign>>

\* a bug: a listed pid is passed over without kill
CleanupKill_skipping ==
    /\ cl_pc = "kill"
    /\ Cleaner \in alive
    /\ \E p \in cl_listed : cl_listed' = cl_listed \ {p}
    /\ UNCHANGED <<envVars, procVars, cgVars, m_pc, h_pc, c_pc, h_trace,
                   c_trace, cl_pc, cl_i, cl_read, cl_killed, cl_removed,
                   cl_post, netVars, rootfs_dir, fatal_failed, nforeign>>

\* libc::kill(pid, SIGKILL) for one line of what was read; a process that
\* signals itself ends there
CleanupKill ==
    /\ cl_pc = "kill"
    /\ Cleaner \in alive
    /\ \E p \in cl_listed :
          /\ cl_listed' = cl_listed \ {p}
          /\ cl_killed' = cl_killed \cup {p}
          /\ IF p \in alive THEN Terminate(p, ExitKilled)
                            ELSE UNCHANGED procVars
          /\ h_pc' = IF p = "H" /\ p \in alive THEN "killed" ELSE h_pc
          /\ m_pc' = IF p = "M" /\ p \in alive THEN "killed" ELSE m_pc
          /\ c_pc' = IF p = "C" /\ p \in alive THEN "killed" ELSE c_pc
    /\ UNCHANGED <<envVars, cgVars, h_trace, c_trace, cl_pc, cl_i, cl_read,
                   cl_removed, cl_post, netVars, rootfs_dir, fatal_failed,
                   nforeign>>

\* the end of `for pid_str in pids.lines()`
CleanupKillDone ==
    /\ cl_pc = "kill"
    /\ Cleaner \in alive
    /\ cl_listed = {}
    /\ CleanupAdvance("read", "remove")
    /\ UNCHANGED <<envVars, procVars, cgVars, m_pc, h_pc, c_pc, h_trace,
                   c_trace, cl_listed, cl_read, cl_killed, cl_removed,
                   cl_post, netVars, rootfs_dir, fatal_failed, nforeign>>

\* fs::remove_dir of controller cl_i, after the 50 ms sleep: it removes an
\* existing cgroup with no process in it, any error is dropped
CleanupRemove ==
    /\ cl_pc = "remove"
    /\ Cleaner \in alive
    /\ LET c    == Controllers(cg_version)[cl_i]
           gone == c \in cg_dirs /\ Listed(cg_members, alive, c) = {}
           dirs == IF gone THEN cg_dirs \ {c} ELSE cg_dirs
           mems == IF gone THEN {e \in cg_members : e[1] # c} ELSE cg_members
       IN  /\ cg_dirs' = dirs
           /\ cg_members' = mems
           /\ cl_removed' = cl_removed \cup {c}
           /\ CleanupAdvance("remove", "returned")
           /\ cl_post' = IF cl_i < Len(Controllers(cg_version)) THEN cl_post
                         ELSE \A d \in ControllerSet(cg_version) :
                                 d \notin dirs \/ Listed(mems, alive, d) = {}
    /\ UNCHANGED <<envVars, procVars, m_pc, h_pc, c_pc, h_trace, c_trace,
                   cl_listed, cl_read, cl_killed, netVars, rootfs_dir,
                   fatal_failed, nforeign>>

\* ---- M: main of the interactive mode (main.rs:50-66)

\* fork in main: the child runs run_container
MainFork ==
    /\ m_pc = "fork"
    /\ \E ok \in BOOLEAN :
          IF ok
          THEN /\ m_pc' = "waitpid"
               /\ alive' = alive \cup {"H"}
               /\ h_pc' = "setup_cgroups"
               /\ UNCHANGED exit_code
          ELSE /\ m_pc' = "exited"
               /\ Terminate("M", 1)
               /\ UNCHANGED h_pc
    /\ UNCHANGED <<envVars, cgVars, c_pc, h_trace, c_trace, clVars, netVars,
                   rootfs_dir, fatal_failed, nforeign>>

\* let _ = waitpid(child, None), then cleanup_cgroup("my_container")
MainWaitpid ==
    /\ m_pc = "waitpid"
    /\ "H" \notin alive
    /\ m_pc' = "in_cleanup"
    /\ CleanupEnter
    /\ UNCHANGED <<envVars, procVars, cgVars, h_pc, c_pc, h_trace, c_trace,
                   netVars, rootfs_dir, fatal_failed, nforeign>>

\* cleanup_cgroup has returned to main: process::exit(0)
MainExit ==
    /\ m_pc = "in_cleanup"
    /\ cl_pc = "returned"
    /\ m_pc' = "exited"
    /\ Terminate("M", 0)
    /\ UNCHANGED <<envVars, cgVars, h_pc, c_pc, h_trace, c_trace, clVars,
                   netVars, rootfs_dir, fatal_failed, nforeign>>

\* ---- C: the child of the fork

ChildDone(step) ==
    /\ c_trace' = Append(c_trace, step)
    /\ c_pc' = ChildAfter(r_mode, step)

ChildEnds(code) ==
    /\ c_pc' = IF code = ExitPanic THEN "panicked" ELSE "exited"
    /\ Terminate("C", code)
    /\ c_trace' = c_trace

\* a step of the child that succeeds or ends the child with `code`
ChildFatal(step, code) ==
    /\ c_pc = step
    /\ \E ok \in BOOLEAN :
          IF ok
          THEN ChildDone(step) /\ UNCHANGED <<procVars, fatal_failed>>
          ELSE ChildEnds(code) /\ fatal_failed' = TRUE
    /\ UNCHANGED <<envVars, cgVars, m_pc, h_pc, h_trace, clVars, peer_in,
                   cc_targets, netns_link, rootfs_dir, nforeign>>

\* a step of the child that cannot end it
ChildPlain(step) ==
    /\ c_pc = step
    /\ ChildDone(step)
    /\ UNCHANGED <<envVars, procVars, cgVars, m_pc, h_pc, h_trace, clVars,
                   netVars, rootfs_dir, fatal_failed, nforeign>>

\* create_network_namespace: unshare(NET), exit(1) on Err
ChildUnshareNet ==
    /\ ChildFatal("unshare_net", 1)
    /\ net_unshared' = (c_pc' # "exited")

\* add_process_to_cgroup(name): a failed write is only logged
ChildJoinCgroup ==
    /\ c_pc = "join_cgroup"
    /\ ChildDone("join_cgroup")
    /\ cg_members' = IF cg_writable
                     THEN cg_members \cup {<<c, "C">> : c \in cg_dirs}
                     ELSE cg_members
    /\ UNCHANGED <<envVars, procVars, cg_dirs, m_pc, h_pc, h_trace, clVars,
                   netVars, rootfs_dir, fatal_failed, nforeign>>

\* create_container_dirs: .expect on the root, warnings for the rest
ChildCreateDirs ==
    ChildFatal("create_dirs", ExitPanic) /\ UNCHANGED net_unshared

\* copy_bash_and_dependencies: .expect on ldd
ChildCopyBash ==
    ChildFatal("copy_bash", ExitPanic) /\ UNCHANGED net_unshared

\* make_mount_point: exit(1) when the bind mount fails
ChildBindMount ==
    ChildFatal("bind_mount", 1) /\ UNCHANGED net_unshared

\* pivot_to_new_root: pivot_root, or chroot when it fails; exit(1) when a
\* chdir fails or the chroot fails
ChildPivot ==
    ChildFatal("pivot", 1) /\ UNCHANGED net_unshared

\* mount_proc, mount_sys, mount_tmp: .expect; mount_dev: warnings only
ChildMountProc ==
    ChildFatal("mount_proc", ExitPanic) /\ UNCHANGED net_unshared

ChildMountSys ==
    ChildFatal("mount_sys", ExitPanic) /\ UNCHANGED net_unshared

ChildMountDev == ChildPlain("mount_dev")

ChildMountTmp ==
    ChildFatal("mount_tmp", ExitPanic) /\ UNCHANGED net_unshared

\* std::env::set_var for each K=V of config.env
ChildApplyEnv == ChildPlain("apply_env")

\* set_current_dir(config.working_dir): a failure is a warning
ChildChdir == ChildPlain("chdir")

\* start_entrypoint / start_shell: execvp, panic on Err
ChildExec ==
    ChildFatal("exec", ExitPanic) /\ UNCHANGED net_unshared

\* the container's program ends, cleanly or not
ChildProgramExit ==
    /\ c_pc = "running"
    /\ \E code \in {0, 1} : ChildEnds(code)
    /\ UNCHANGED <<envVars, cgVars, m_pc, h_pc, h_trace, clVars, netVars,
                   rootfs_dir, fatal_failed, nforeign>>

\* ---- X: a process this invocation did not start is written to the
\* ---- cgroup.procs of the container's cgroup (another invocation of the
\* ---- interactive mode uses the same name, container.rs:14)
ForeignJoin ==
    /\ nforeign < MaxForeign
    /\ "X" \in alive
    /\ cg_writable
    /\ cg_dirs # {}
    /\ cg_members' = cg_members \cup {<<c, "X">> : c \in cg_dirs}
    /\ nforeign' = nforeign + 1
    /\ UNCHANGED <<envVars, procVars, cg_dirs, m_pc, h_pc, c_pc, h_trace,
                   c_trace, clVars, netVars, rootfs_dir, fatal_failed>>

\* run_image has extracted the layers into the rootfs and calls
\* run_container_from_image, or main starts the interactive mode
RunInit ==
    /\ r_mode \in {"image", "interactive"}
    /\ cg_version \in {1, 2}
    /\ cg_writable \in BOOLEAN
    /\ cg_dirs = {} /\ cg_members = {}
    /\ alive = (IF r_mode = "image" THEN {"H"} ELSE {"M"}) \cup {"X"}
    /\ exit_code = [p \in Pids |-> NotExited]
    /\ m_pc = (IF r_mode = "image" THEN "off" ELSE "fork")
    /\ h_pc = (IF r_mode = "image" THEN "run_image" ELSE "off")
    /\ c_pc = "off"
    /\ h_trace = <<>> /\ c_trace = <<>>
    /\ cl_pc = "idle" /\ cl_i = 1 /\ cl_listed = {}
    /\ cl_read = [c \in AllControllers |-> {}]
    /\ cl_killed = {} /\ cl_removed = {} /\ cl_post = TRUE
    /\ net_unshared = FALSE /\ peer_in = "nowhere" /\ cc_targets = {}
    /\ netns_link = FALSE
    /\ rootfs_dir = (r_mode # "image")
    /\ fatal_failed = FALSE
    /\ nforeign = 0
    /\ cg_subtree = {} /\ cg_files = EmptyFn
    /\ p_lines = <<>> /\ p_instructions = <<>> /\ p_input = <<>>
    /\ StoreInit
    /\ LiveIdle
    /\ store_files \in (IF r_mode = "image" THEN RunStores ELSE {EmptyFn})
    /\ f_saved = EmptyFn
    /\ f_last = NoOp

HostNext ==
    \/ HostLoadImage
    \/ HostCreateRootfs
    \/ HostSetupCgroups
    \/ HostIpForward
    \/ HostDetectIface
    \/ HostUnshare
    \/ HostFork
    \/ HostCreateVethPair
    \/ HostMoveExists
    \/ HostMoveSymlink
    \/ HostMoveLinkSet
    \/ HostMoveCheck
    \/ HostMoveRemove
    \/ HostAddr
    \/ HostUp
    \/ HostConfSymlink
    \/ HostConfAddr
    \/ HostConfUp
    \/ HostConfLo
    \/ HostConfRoute
    \/ HostConfRemove
    \/ HostNatMasquerade
    \/ HostNatForwardOut
    \/ HostNatForwardIn
    \/ HostWaitpid
    \/ HostCleanupCall
    \/ HostCleanupReturn
    \/ HostRemoveRootfs
    \/ HostExit

CleanupNext ==
    \/ CleanupRead
    \/ CleanupKill
    \/ CleanupKillDone
    \/ CleanupRemove

MainNext ==
    \/ MainFork
    \/ MainWaitpid
    \/ MainExit

ChildNext ==
    \/ ChildUnshareNet
    \/ ChildJoinCgroup
    \/ ChildCreateDirs
    \/ ChildCopyBash
    \/ ChildBindMount
    \/ ChildPivot
    \/ ChildMountProc
    \/ ChildMountSys
    \/ ChildMountDev
    \/ ChildMountTmp
    \/ ChildApplyEnv
    \/ ChildChdir
    \/ ChildExec
    \/ ChildProgramExit

RunNext ==
    \/ HostNext
    \/ CleanupNext
    \/ MainNext
    \/ ChildNext
    \/ ForeignJoin

SpecRun == RunInit /\ [][RunNext]_vars

(***************************************************************************)
(* Invocations of the runtime that run at the same time: each is its own   *)
(* process, `run IMAGE:TAG` (main.rs:106-163) or the interactive mode      *)
(* (main.rs:50-66, container.rs:16-51), and each calls setup_cgroups with  *)
(* the name it made.  Uuid::new_v4 is taken to return a value it has not   *)
(* returned before.                                                        *)
(***************************************************************************)
UuidPool == {"u1", "u2", "u3", "u4"}

\* const CONTAINER_NAME
CONTAINER_NAME == "my_container"

\* format!("img-{}", container_id)
ImageCgroupName(container_id) == "img-" \o container_id

\* run_image: a new uuid, setup_cgroups("img-<uuid>")
InvokeImage(i) ==
    /\ inv[i].state = "none"
    /\ \E container_id \in UuidPool \ uuids :
          /\ uuids' = uuids \cup {container_id}
          /\ inv' = [inv EXCEPT ![i] = [state |-> "live", mode |-> "image",
                                        name |-> ImageCgroupName(container_id)]]
    /\ UNCHANGED <<parseVars, storeVars, buildVars, histVars, runVars, fileVars,
                   imageVars, rootfsVars>>

\* run_container: setup_cgroups(CONTAINER_NAME)
InvokeInteractive(i) ==
    /\ inv[i].state = "none"
    /\ inv' = [inv EXCEPT ![i] = [state |-> "live", mode |-> "interactive",
                                  name |-> CONTAINER_NAME]]
    /\ UNCHANGED <<parseVars, storeVars, buildVars, histVars, runVars, fileVars,
                   uuids, imageVars, rootfsVars>>

\* the container of invocation i has ended and the invocation with it
InvocationEnds(i) ==
    /\ inv[i].state = "live"
    /\ inv' = [inv EXCEPT ![i].state = "ended"]
    /\ UNCHANGED <<parseVars, storeVars, buildVars, histVars, runVars, fileVars,
                   uuids, imageVars, rootfsVars>>

LiveInit ==
    /\ LiveIdle
    /\ FilesIdle
    /\ RunIdle
    /\ p_lines = <<>> /\ p_instructions = <<>> /\ p_input = <<>>
    /\ StoreInit

LiveNext ==
    \E i \in 1..MaxInvocations :
        \/ InvokeImage(i)
        \/ InvokeInteractive(i)
        \/ InvocationEnds(i)

SpecLive == LiveInit /\ [][LiveNext]_vars

(***************************************************************************)
(* ImageStore::save_layer on the files of layers/ (src/image.rs:64-74):    *)
(* fs::read of the tarball, the digest of its bytes, fs::copy to           *)
(* layers/<digest>.                                                        *)
(***************************************************************************)
\* /tmp/layer-<uuid>.tar.gz of create_layer
TarballPaths == {"/tmp/layer-u1.tar.gz", "/tmp/layer-u2.tar.gz"}

\* the bytes a tarball can hold
TarballBytes == {<<"x">>, <<"x", "y">>, <<"z", "y">>}

\* root/layers/<digest>
LayerPath(digest) == <<"layers", digest>>

SaveLayer ==
    /\ \E tarball_path \in TarballPaths, data \in TarballBytes :
         LET digest == LayerDigest(data)
             dest   == LayerPath(digest)
             call   == [op |-> "save_layer", path |-> tarball_path,
                        bytes |-> data, before |-> store_files,
                        result |-> "Err", value |-> NoDigest]
         IN  \/ \* fs::read fails: Err
                /\ f_last' = call
                /\ UNCHANGED store_files
             \/ \* fs::copy writes all the bytes: Ok(digest)
                /\ store_files' = Written(dest, data)
                /\ f_last' = [call EXCEPT !.result = "Ok", !.value = digest]
             \/ \* fs::copy fails after it has opened and truncated dest: Err
                /\ \E text \in Partial(data) : store_files' = Written(dest, text)
                /\ f_last' = call
    /\ UNCHANGED f_saved
    /\ StoreUnchanged

LayersNext == SaveLayer

SpecLayers == FilesInit /\ [][LayersNext]_vars

(***************************************************************************)
(* run_image (src/main.rs:106-163) step by step, up to its call of         *)
(* run_container_from_image, which does not return.  The store is the text *)
(* of its files.  An Err of run_image comes back to main, which prints it  *)
(* and calls process::exit(1) (main.rs:43-46).                             *)
(***************************************************************************)
Latest == <<"l", "a", "t", "e", "s", "t">>
T_q    == <<"q">>

\* &layer_digest[..16]
ShownLen == 16

\* a digest as save_layer makes it: "sha256:" and hex digits
LongDigest(c) == <<"s", "h", "a", "2", "5", "6", ":">> \o [n \in 1..9 |-> c]
DL_1 == LongDigest("1")
DL_2 == LongDigest("2")
DL_3 == LongDigest("3")

\* the image references `run` is given
RunImageRefs ==
    {<<"a">>, <<"a", ":", "q">>, <<"a", ":">>, <<"a", ":", "q", ":", "x">>}

\* manifests/<name>/<tag> and manifests/<name>/<tag>.config, as `manifests`
\* and `configs` name them here
StoreKey(name, tag) == <<name, tag>>

\* what serde_json::from_str makes of a file: Ok(v), or Err
FromStrOk(v) == [ok |-> TRUE, val |-> v]

\* what the manifest of a:latest can list, and that of a:q: three layers, a
\* digest shorter than the sixteen characters shown, or nothing
ManifestChoices(key) ==
    IF key[2] = Latest THEN {FromStrOk(<<DL_1, DL_2>>), Fail}
    ELSE {FromStrOk(<<DL_3, DL_1, DL_2>>), FromStrOk(<<D_1>>), FromStrOk(<<>>)}

ConfigChoices(key) ==
    IF key[2] = Latest THEN {FromStrOk(RunConfig), Fail}
    ELSE {FromStrOk([entrypoint |-> <<S_a, S_quote>>, env |-> <<>>,
                  working_dir |-> S_a])}

\* the functions that give some of the keys one of their choices
Picks(keys, Choices(_)) ==
    UNION {{f \in [K -> UNION {Choices(k) : k \in K}] :
               \A k \in K : f[k] \in Choices(k)} : K \in SUBSET keys}

RunImageKeys == {StoreKey(S_a, Latest), StoreKey(S_a, T_q)}

\* let tag = parts.get(1).unwrap_or(&"latest")
image_tag(parts) == IF Len(parts) >= 2 THEN parts[2] ELSE Latest

\* format!("/tmp/container-{}", container_id)
RootfsPath(container_id) == "/tmp/container-" \o container_id

ImageRest ==
    UNCHANGED <<parseVars, storeVars, buildVars, histVars, runVars, fileVars,
                inv, rootfsVars>>

\* image_ref.split(':'), ImageStore::new?, load_manifest(name, tag)?,
\* read_to_string(config_path)?, serde_json::from_str?
RunImageLoad ==
    /\ ri_pc = "load"
    /\ LET parts == split(ri_ref, ":")
           name  == parts[1]
           tag   == image_tag(parts)
           key   == StoreKey(name, tag)
       IN  /\ ri_name' = name
           /\ ri_tag' = tag
           /\ \/ \* HOME is not set, or the store's root cannot be made: Err
                 /\ ri_pc' = "exited"
                 /\ UNCHANGED <<ri_manifest, ri_config>>
              \/ IF key \notin DOMAIN manifests \/ ~manifests[key].ok
                 THEN /\ ri_pc' = "exited"
                      /\ UNCHANGED <<ri_manifest, ri_config>>
                 ELSE /\ ri_manifest' = [name |-> name, tag |-> tag,
                                         layers |-> manifests[key].val]
                      /\ IF key \notin DOMAIN configs \/ ~configs[key].ok
                         THEN /\ ri_pc' = "exited"
                              /\ UNCHANGED ri_config
                         ELSE /\ ri_config' = configs[key].val
                              /\ ri_pc' = "create_rootfs"
    /\ UNCHANGED <<ri_ref, ri_id, ri_i, ri_tar, ri_content, ri_call, uuids>>
    /\ ImageRest

\* Uuid::new_v4(), create_dir_all(/tmp/container-<uuid>)?
RunImageCreateRootfs ==
    /\ ri_pc = "create_rootfs"
    /\ \E container_id \in UuidPool \ uuids :
          /\ uuids' = uuids \cup {container_id}
          /\ ri_id' = container_id
    /\ \/ ri_pc' = "extract"
       \/ ri_pc' = "exited"
    /\ UNCHANGED <<ri_ref, ri_name, ri_tag, ri_manifest, ri_config, ri_i,
                   ri_tar, ri_content, ri_call>>
    /\ ImageRest

\* one turn of the for loop: the digest's first sixteen characters are
\* printed (a shorter digest panics), tar -xzf <layer> -C <rootfs> is run and
\* waited for; `?` returns the Err of a tar that could not be started, and
\* the exit status of one that ran is not looked at
RunImageExtract ==
    /\ ri_pc = "extract"
    /\ ri_i <= Len(ri_manifest.layers)
    /\ LET layer_digest == ri_manifest.layers[ri_i]
       IN  IF Len(layer_digest) < ShownLen
           THEN /\ ri_pc' = "panicked"
                /\ UNCHANGED <<ri_i, ri_tar, ri_content>>
           ELSE \/ /\ ri_pc' = "exited"
                   /\ UNCHANGED <<ri_i, ri_tar, ri_content>>
                \/ \E status \in {0, 2} :
                      /\ status = 0 => layer_digest \in layer_files
                      /\ ri_tar' = Append(ri_tar, layer_digest)
                      /\ ri_content' = IF status = 0
                                       THEN Append(ri_content, layer_digest)
                                       ELSE ri_content
                      /\ ri_i' = ri_i + 1
                      /\ ri_pc' = ri_pc
    /\ UNCHANGED <<ri_ref, ri_name, ri_tag, ri_manifest, ri_config, ri_id,
                   ri_call, uuids>>
    /\ ImageRest

\* after the loop: run_container_from_image(rootfs, &config, "img-<uuid>")
RunImageCall ==
    /\ ri_pc = "extract"
    /\ ri_i > Len(ri_manifest.layers)
    /\ ri_call' = [called |-> TRUE,
                   rootfs |-> RootfsPath(ri_id),
                   config |-> ri_config,
                   cgroup_name |-> ImageCgroupName(ri_id)]
    /\ ri_pc' = "engine"
    /\ UNCHANGED <<ri_ref, ri_name, ri_tag, ri_manifest, ri_config, ri_id,
                   ri_i, ri_tar, ri_content, uuids>>
    /\ ImageRest

\* main has called run_image(&args[2])
ImageInit ==
    /\ ri_pc = "load"
    /\ ri_ref \in RunImageRefs
    /\ ri_name = <<>> /\ ri_tag = <<>>
    /\ ri_manifest = NotLoaded /\ ri_config = NotLoaded /\ ri_id = NoId
    /\ ri_i = 1 /\ ri_tar = <<>> /\ ri_content = <<>> /\ ri_call = NoCall
    /\ inv = [i \in 1..MaxInvocations |-> [state |-> "none"]]
    /\ uuids = {}
    /\ RootfsIdle
    /\ RunIdle
    /\ FilesIdle
    /\ p_lines = <<>> /\ p_instructions = <<>> /\ p_input = <<>>
    /\ layer_files \in SUBSET {DL_1, DL_2, DL_3}
    /\ manifests \in Picks(RunImageKeys, ManifestChoices)
    /\ configs \in Picks(RunImageKeys, ConfigChoices)
    /\ cache_index = EmptyFn
    /\ alpine_cache = FALSE
    /\ pc = "idle" /\ forgefile = <<>> /\ image_ref \in ImageRefs
    /\ instructions = <<>> /\ ip = 1 /\ layers = <<>>
    /\ prev_cache_key = "base" /\ cache_valid = TRUE
    /\ config = InitialConfig /\ rootfs = {}
    /\ log = <<>>
    /\ store0 = [layer_files |-> layer_files, cache_index |-> EmptyFn,
                 alpine_cache |-> FALSE, manifests |-> manifests,
                 configs |-> configs]
    /\ prev_build = NoBuild /\ nbuilds = 0 /\ nremoved = 0

ImageNext ==
    \/ RunImageLoad
    \/ RunImageCreateRootfs
    \/ RunImageExtract
    \/ RunImageCall

SpecImage == ImageInit /\ [][ImageNext]_vars

(***************************************************************************)
(* setup_root_filesystem (src/filesystem.rs:173-189) in the child, call by *)
(* call.  fs_calls lists the calls the child has made on the filesystem,   *)
(* each with its outcome; fs_old_root is what /old_root of the new root    *)
(* is.  process::exit(1) and a panic end the child.                        *)
(***************************************************************************)
\* CONTAINER_ROOT of the interactive mode and a rootfs of run_image
NewRoots == {"/tmp/container-root", RootfsPath("u1")}

Call(name, ok) == [call |-> name, ok |-> ok]

FsRest ==
    UNCHANGED <<parseVars, storeVars, buildVars, histVars, runVars, fileVars,
                inv, uuids, imageVars, fs_root>>

\* the child ends with `code` after `calls`
FsEnds(calls, code) ==
    /\ fs_calls' = fs_calls \o calls
    /\ fs_pc' = IF code = ExitPanic THEN "panicked" ELSE "exited"
    /\ fs_exit' = code
    /\ UNCHANGED fs_old_root

\* create_container_dirs: create_dir_all(new_root).expect, then the
\* seventeen directories, a failure of which is a warning
FsCreateContainerDirs ==
    /\ fs_pc = "create_container_dirs"
    /\ \/ FsEnds(<<Call("create_root", FALSE)>>, ExitPanic)
       \/ \E all \in BOOLEAN, old_root \in BOOLEAN :
             /\ all => old_root
             /\ fs_calls' = fs_calls \o <<Call("create_root", TRUE),
                                          Call("create_dirs", all)>>
             /\ fs_old_root' = IF old_root THEN "dir" ELSE "absent"
             /\ fs_pc' = "copy_bash"
             /\ UNCHANGED fs_exit
    /\ FsRest

\* copy_bash_and_dependencies: .expect on ldd
FsCopyBash ==
    /\ fs_pc = "copy_bash"
    /\ \/ FsEnds(<<Call("copy_bash", FALSE)>>, ExitPanic)
       \/ /\ fs_calls' = Append(fs_calls, Call("copy_bash", TRUE))
          /\ fs_pc' = "make_mount_point"
          /\ UNCHANGED <<fs_exit, fs_old_root>>
    /\ FsRest

\* make_mount_point: mount(new_root, new_root, MS_BIND | MS_REC), exit(1)
\* on Err
FsMakeMountPoint ==
    /\ fs_pc = "make_mount_point"
    /\ \/ FsEnds(<<Call("bind_mount", FALSE)>>, 1)
       \/ /\ fs_calls' = Append(fs_calls, Call("bind_mount", TRUE))
          /\ fs_pc' = "pivot_to_new_root"
          /\ UNCHANGED <<fs_exit, fs_old_root>>
    /\ FsRest

\* use_mount_instead_of_pivot: chroot(new_root) and chdir("/"), exit(1) when
\* either fails
use_mount_instead_of_pivot(before) ==
    \/ FsEnds(before \o <<Call("chroot", FALSE)>>, 1)
    \/ FsEnds(before \o <<Call("chroot", TRUE), Call("chdir_root", FALSE)>>, 1)
    \/ /\ fs_calls' = fs_calls \o before \o
                        <<Call("chroot", TRUE), Call("chdir_root", TRUE)>>
       /\ fs_pc' = "mount_essential_filesystems"
       /\ UNCHANGED <<fs_exit, fs_old_root>>

\* pivot_to_new_root: chdir(new_root) (exit(1) on Err), create_dir_all of
\* ./old_root (a warning on Err), pivot_root(".", "./old_root"); when that
\* fails use_mount_instead_of_pivot and return; else chdir("/") (exit(1) on
\* Err), umount2("/old_root", MNT_DETACH) and remove_dir("/old_root"), a
\* warning on Err each.  create_dir_all returns Ok for a directory that
\* is there, pivot_root needs ./old_root to exist, and a directory something
\* is mounted on cannot be removed.
FsPivotToNewRoot ==
    /\ fs_pc = "pivot_to_new_root"
    /\ \/ FsEnds(<<Call("chdir_new_root", FALSE)>>, 1)
       \/ \E made \in {TRUE, fs_old_root = "dir"} :
            LET there == made
                before == <<Call("chdir_new_root", TRUE),
                            Call("create_old_root", made)>>
            IN  \/ use_mount_instead_of_pivot(
                        before \o <<Call("pivot_root", FALSE)>>)
                \/ /\ there
                   /\ FsEnds(before \o <<Call("pivot_root", TRUE),
                                          Call("chdir_root", FALSE)>>, 1)
                \/ /\ there
                   /\ \E unmounted \in BOOLEAN, removed \in BOOLEAN :
                         /\ removed => unmounted
                         /\ fs_calls' = fs_calls \o before \o
                               <<Call("pivot_root", TRUE),
                                 Call("chdir_root", TRUE),
                                 Call("umount_old_root", unmounted),
                                 Call("remove_old_root", removed)>>
                         /\ fs_old_root' = IF removed THEN "absent"
                                           ELSE IF unmounted THEN "dir"
                                           ELSE "old root"
                         /\ fs_pc' = "mount_essential_filesystems"
                         /\ UNCHANGED fs_exit
    /\ FsRest

\* mount_essential_filesystems: mount_proc and mount_sys (.expect),
\* mount_dev (devtmpfs, then tmpfs with mode=755, warnings only), mount_tmp
\* (.expect)
FsMountEssentialFilesystems ==
    /\ fs_pc = "mount_essential_filesystems"
    /\ \/ FsEnds(<<Call("mount_proc", FALSE)>>, ExitPanic)
       \/ FsEnds(<<Call("mount_proc", TRUE), Call("mount_sys", FALSE)>>,
                 ExitPanic)
       \/ \E dev \in {<<Call("mount_devtmpfs", TRUE)>>,
                      <<Call("mount_devtmpfs", FALSE), Call("mount_dev_tmpfs", TRUE)>>,
                      <<Call("mount_devtmpfs", FALSE), Call("mount_dev_tmpfs", FALSE)>>} :
            LET before == <<Call("mount_proc", TRUE), Call("mount_sys", TRUE)>>
                             \o dev
            IN  \/ FsEnds(before \o <<Call("mount_tmp", FALSE)>>, ExitPanic)
                \/ /\ fs_calls' = fs_calls \o before \o
                                    <<Call("mount_tmp", TRUE)>>
                   /\ fs_pc' = "returned"
                   /\ UNCHANGED <<fs_exit, fs_old_root>>
    /\ FsRest

\* the child calls setup_root_filesystem(new_root)
RootfsInit ==
    /\ fs_pc = "create_container_dirs"
    /\ fs_root \in NewRoots
    /\ fs_calls = <<>>
    /\ fs_exit = NotExited
    /\ fs_old_root = "absent"
    /\ inv = [i \in 1..MaxInvocations |-> [state |-> "none"]]
    /\ uuids = {}
    /\ ImageIdle
    /\ FilesIdle
    /\ RunIdle
    /\ p_lines = <<>> /\ p_instructions = <<>> /\ p_input = <<>>
    /\ StoreInit

RootfsNext ==
    \/ FsCreateContainerDirs
    \/ FsCopyBash
    \/ FsMakeMountPoint
    \/ FsPivotToNewRoot
    \/ FsMountEssentialFilesystems

SpecRootfs == RootfsInit /\ [][RootfsNext]_vars

(***************************************************************************)
(* setup_cgroups(name) on the files of /sys/fs/cgroup (src/cgroups.rs):    *)
(* create_cgroup_hierarchy, set_resource_limits, add_process_to_cgroup,    *)
(* run by H.  A control file cannot be created by a write: it exists when  *)
(* the kernel made it with the directory, on v2 only for the controllers   *)
(* the parent lists in cgroup.subtree_control.  Every failure is logged    *)
(* and nothing else.                                                       *)
(***************************************************************************)
CGROUP_T == "t"

V2Controllers == {"cpu", "memory", "pids"}

\* the files the kernel keeps in the root of a v2 hierarchy
RootFilesV2 ==
    {"cgroup.controllers", "cgroup.subtree_control", "cgroup.procs"}

\* the control files of one controller in a v2 cgroup, as the kernel makes them
KernelFilesV2(name, controller) ==
    CASE controller = "cpu"    -> {<<name \o "/cpu.max", "max 100000">>}
      [] controller = "memory" -> {<<name \o "/memory.max", "max">>}
      [] controller = "pids"   -> {<<name \o "/pids.max", "max">>}

\* the control files of one v1 controller's cgroup, as the kernel makes them
KernelFilesV1(name, controller) ==
    CASE controller = "cpu" ->
            {<<"cpu/" \o name \o "/cpu.cfs_quota_us", "-1">>,
             <<"cpu/" \o name \o "/cpu.cfs_period_us", "100000">>}
      [] controller = "memory" ->
            {<<"memory/" \o name \o "/memory.limit_in_bytes",
               "9223372036854771712">>}
      [] controller = "pids" -> {<<"pids/" \o name \o "/pids.max", "max">>}

\* cg_files with the files of `made` added, a file that exists kept
WithKernelFiles(made) ==
    [p \in DOMAIN cg_files \cup {f[1] : f \in made} |->
        IF p \in DOMAIN cg_files THEN cg_files[p]
        ELSE (CHOOSE f \in made : f[1] = p)[2]]

\* write_cgroup_file: fs::write, Err only logged
write_cgroup_file(files, path, content) ==
    IF cg_writable /\ path \in DOMAIN files
    THEN [files EXCEPT ![path] = content]
    ELSE files

\* what no step of setup_cgroups changes
SetupUnchanged ==
    UNCHANGED <<baseVars, procVars, m_pc, c_pc, c_trace, clVars, netVars,
                rootfs_dir, fatal_failed, nforeign>>

\* create_cgroup_hierarchy: create_dir_all of the cgroup's directories
SetupCreateDirs ==
    /\ h_pc = "create_dirs"
    /\ IF cg_writable
       THEN /\ cg_dirs' = ControllerSet(cg_version)
            /\ cg_files' =
                 WithKernelFiles(
                    IF cg_version = 2
                    THEN UNION {KernelFilesV2(CGROUP_T, c) : c \in cg_subtree}
                    ELSE UNION {KernelFilesV1(CGROUP_T, c) : c \in V2Controllers})
       ELSE UNCHANGED <<cg_dirs, cg_files>>
    /\ HostDone("create_dirs", "enable_controllers")
    /\ UNCHANGED <<cg_subtree, cg_members>>
    /\ SetupUnchanged

\* enable_controllers_v2 (v2 only): if /sys/fs/cgroup/cgroups.controllers can
\* be read, write "+cpu +memory +pids" to cgroup.subtree_control
SetupEnableControllers ==
    /\ h_pc = "enable_controllers"
    /\ IF cg_version = 2 /\ "cgroups.controllers" \in RootFilesV2 /\ cg_writable
       THEN /\ cg_subtree' = V2Controllers
            /\ cg_files' =
                 IF cg_dirs = {} THEN cg_files
                 ELSE WithKernelFiles(
                        UNION {KernelFilesV2(CGROUP_T, c) : c \in V2Controllers})
       ELSE UNCHANGED <<cg_subtree, cg_files>>
    /\ HostDone("enable_controllers", "set_limits")
    /\ UNCHANGED <<cg_dirs, cg_members>>
    /\ SetupUnchanged

\* set_limits_v2: cpu.max, memory.max, pids.max
set_limits_v2(files, name) ==
    write_cgroup_file(
        write_cgroup_file(
            write_cgroup_file(files, name \o "/cpu.max", "50000 100000"),
            name \o "/memory.max", "536870912"),
        name \o "/pids.max", "100")

\* set_limits_v1: quota, period, memory limit, pids.max
set_limits_v1(files, name) ==
    write_cgroup_file(
        write_cgroup_file(
            write_cgroup_file(
                write_cgroup_file(files, "cpu/" \o name \o "/cpu.cfs_quota_us",
                                  "50000"),
                "cpu/" \o name \o "/cpu.cfs_period_us", "100000"),
            "memory/" \o name \o "/memory.limit_in_bytes", "536870912"),
        "pids/" \o name \o "/pids.max", "100")

\* set_resource_limits
SetupSetLimits ==
    /\ h_pc = "set_limits"
    /\ cg_files' = IF cg_version = 2 THEN set_limits_v2(cg_files, CGROUP_T)
                   ELSE set_limits_v1(cg_files, CGROUP_T)
    /\ HostDone("set_limits", "add_process")
    /\ UNCHANGED <<cg_subtree, cg_dirs, cg_members>>
    /\ SetupUnchanged

\* add_process_to_cgroup: process::id() written to each cgroup.procs
SetupAddProcess ==
    /\ h_pc = "add_process"
    /\ cg_members' = IF cg_writable
                     THEN cg_members \cup {<<c, "H">> : c \in cg_dirs}
                     ELSE cg_members
    /\ HostDone("add_process", "cgroups_configured")
    /\ UNCHANGED <<cg_subtree, cg_dirs, cg_files>>
    /\ SetupUnchanged

\* H enters setup_cgroups on a host with or without the v2 hierarchy, with
\* or without the right to write to it, and with any of the controllers
\* enabled for the children of the root
CgroupInit ==
    /\ r_mode = "image"
    /\ cg_version \in {1, 2}
    /\ cg_writable \in BOOLEAN
    /\ cg_subtree \in SUBSET V2Controllers
    /\ cg_files = EmptyFn
    /\ cg_dirs = {} /\ cg_members = {}
    /\ alive = {"H"}
    /\ exit_code = [p \in Pids |-> NotExited]
    /\ m_pc = "off" /\ h_pc = "create_dirs" /\ c_pc = "off"
    /\ h_trace = <<>> /\ c_trace = <<>>
    /\ cl_pc = "idle" /\ cl_i = 1 /\ cl_listed = {}
    /\ cl_read = [c \in AllControllers |-> {}]
    /\ cl_killed = {} /\ cl_removed = {} /\ cl_post = TRUE
    /\ net_unshared = FALSE /\ peer_in = "nowhere" /\ cc_targets = {}
    /\ netns_link = FALSE
    /\ rootfs_dir = FALSE
    /\ fatal_failed = FALSE
    /\ nforeign = 0
    /\ p_lines = <<>> /\ p_instructions = <<>> /\ p_input = <<>>
    /\ StoreInit
    /\ LiveIdle
    /\ FilesIdle

CgroupNext ==
    \/ SetupCreateDirs
    \/ SetupEnableControllers
    \/ SetupSetLimits
    \/ SetupAddProcess

SpecCgroup == CgroupInit /\ [][CgroupNext]_vars

(***************************************************************************)
(* Properties                                                              *)
(***************************************************************************)
InBuild == pc \in {"building", "done", "failed"}

LayerEntry(e) == IsLayerOp(e.op)

\* the positions of this build's history that are FROM, COPY or RUN
LayerPositions == {j \in DOMAIN log : IsLayerOp(log[j].op)}

\* C1: every digest build has pushed to `layers` has its file under layers/,
\* and the manifest a build saves lists only digests whose file exists when it
\* is saved (pc = "done" is the state right after save_manifest).
C1_ManifestLayersExist ==
    /\ InBuild => \A i \in DOMAIN layers : layers[i] \in layer_files
    /\ pc = "done" =>
          /\ image_ref \in DOMAIN manifests
          /\ \A i \in DOMAIN manifests[image_ref] :
                manifests[image_ref][i] \in layer_files

\* a build on a store with a dangling index entry has saved a manifest that
\* holds a digest taken from the cache and a digest it created
C1_Witness ==
    /\ pc = "done"
    /\ nremoved > 0
    /\ \E i, j \in LayerPositions :
          /\ log[i].kind = "hit"
          /\ log[j].kind = "miss" /\ log[j].indexed /\ ~log[j].present
    /\ Len(manifests[image_ref]) >= 2

\* C2: an instruction takes the cached path only if cache_valid held, the
\* index mapped its key and the mapped layer file existed; with a dangling
\* entry (key mapped, file absent) it is not extracted from the cache: its
\* effect is run and, unless the effect fails and aborts the build, a layer
\* is created and the index entry of the key is the new digest.
C2_CachedOnlyIfLayerExists ==
    InBuild =>
      \A j \in LayerPositions :
        /\ log[j].kind = "hit" =>
              log[j].valid /\ log[j].indexed /\ log[j].present
        /\ (log[j].indexed /\ ~log[j].present) =>
              /\ log[j].kind \in {"miss", "failed"}
              /\ "tar -xzf layer" \notin {log[j].ran[n] : n \in DOMAIN log[j].ran}
              /\ log[j].kind = "miss" =>
                    /\ log[j].digest \in layer_files
                    /\ log[j].key \in DOMAIN cache_index
                    /\ cache_index[log[j].key] = log[j].digest

\* a dangling entry was met, the instruction ran, and the index entry was
\* overwritten with a digest other than the dangling one
C2_Witness ==
    /\ InBuild
    /\ \E j \in LayerPositions :
          /\ log[j].indexed /\ ~log[j].present /\ log[j].kind = "miss"
          /\ cache_index[log[j].key] = log[j].digest
          /\ store0.cache_index[log[j].key] # log[j].digest

\* C3: once a FROM, COPY or RUN of a build has missed, cache_valid is false
\* for the rest of that build and every later FROM, COPY or RUN runs its
\* effect and is never extracted from the cache, also when its own key is in
\* the index with its layer file present.
C3_CacheValidMonotone ==
    InBuild =>
      /\ (\E j \in LayerPositions : log[j].kind \in {"miss", "failed"})
            => ~cache_valid
      /\ \A i, j \in LayerPositions :
            (i < j /\ log[i].kind \in {"miss", "failed"}) =>
                /\ ~log[j].valid
                /\ log[j].kind \in {"miss", "failed"}
                /\ "tar -xzf layer" \notin {log[j].ran[n] : n \in DOMAIN log[j].ran}

\* after a miss, a later instruction whose key was in the index with its
\* layer file present was run all the same
C3_Witness ==
    /\ InBuild
    /\ \E i, j \in LayerPositions :
          /\ i < j
          /\ log[i].kind = "miss"
          /\ log[j].indexed /\ log[j].present /\ log[j].kind = "miss"

\* ---- the build B1 that returned Ok right before this one (B2), on a store
\* ---- nothing touched in between
PrevKeys == {prev_build.log[m].key : m \in DOMAIN prev_build.log}

\* instruction m of B2 is B1's instruction m, with the same COPY source bytes
SameAt(m) ==
    /\ m \in DOMAIN prev_build.log
    /\ log[m].instr = prev_build.log[m].instr
    /\ log[m].desc = prev_build.log[m].desc

\* B1 and B2 agree on every instruction up to and including j
BeforeDiff(j) == \A m \in 1..j : SameAt(m)

\* C4 to the letter: before the first difference every FROM, COPY or RUN is a
\* hit with B1's digest; from the first difference on every one has a key B1
\* never used and is run fresh.
C4_Original ==
    (InBuild /\ prev_build.ok) =>
      \A j \in LayerPositions :
        /\ BeforeDiff(j) =>
              log[j].kind = "hit" /\ log[j].digest = prev_build.log[j].digest
        /\ ~BeforeDiff(j) =>
              /\ log[j].key \notin PrevKeys
              /\ log[j].kind \in {"miss", "failed"}

\* C4, allowing for index entries older than B1: before the first
\* difference every FROM, COPY or RUN is a hit with B1's digest; from the
\* first difference on every one has a key B1 never used, and is run fresh
\* unless the index already held an entry for that key before B1 started
\* (left by an earlier build).
C4_MonotoneInvalidation ==
    (InBuild /\ prev_build.ok) =>
      \A j \in LayerPositions :
        /\ BeforeDiff(j) =>
              log[j].kind = "hit" /\ log[j].digest = prev_build.log[j].digest
        /\ ~BeforeDiff(j) =>
              /\ log[j].key \notin PrevKeys
              /\ log[j].key \notin DOMAIN prev_build.store0.cache_index
                    => log[j].kind \in {"miss", "failed"}

\* B2 has finished: a hit before the first difference, a fresh layer after
C4_Witness ==
    /\ pc = "done" /\ prev_build.ok
    /\ \E i, j \in LayerPositions :
          /\ i < j
          /\ BeforeDiff(i) /\ log[i].kind = "hit"
          /\ ~BeforeDiff(j) /\ log[j].kind = "miss"

\* ---- C5
MetaOps == {"WORKDIR", "ENV", "ENTRYPOINT"}

\* B2's file is B1's but for instruction i, a metadata instruction in both
DiffersOnlyAt(i) ==
    /\ prev_build.ok
    /\ Len(instructions) = Len(prev_build.instructions)
    /\ i \in DOMAIN instructions
    /\ instructions[i] # prev_build.instructions[i]
    /\ instructions[i].op \in MetaOps
    /\ prev_build.instructions[i].op \in MetaOps
    /\ \A m \in DOMAIN instructions \ {i} :
          instructions[m] = prev_build.instructions[m]

\* C5: when B2 differs from B1 only in the metadata instruction at i, every
\* FROM, COPY or RUN after i has in B2 a key other than its key in B1, a key
\* B1 never used, so that no entry B1 wrote or read serves it.
C5_MetadataInvalidates ==
    InBuild =>
      \A i \in DOMAIN instructions :
        DiffersOnlyAt(i) =>
          \A j \in LayerPositions :
            j > i =>
              /\ log[j].key # prev_build.log[j].key
              /\ log[j].key \notin PrevKeys
              /\ log[j].kind = "hit" =>
                    log[j].key \in DOMAIN prev_build.store0.cache_index

\* a RUN after the one changed metadata instruction was run afresh
C5_Witness ==
    /\ InBuild
    /\ \E i \in DOMAIN instructions :
          /\ DiffersOnlyAt(i)
          /\ \E j \in LayerPositions :
                j > i /\ log[j].kind = "miss" /\ log[j].op = "RUN"

\* ---- C6
\* B2 has B1's instructions and, so far, B1's descriptors (COPY sources too)
SameAsPrevious ==
    /\ prev_build.ok
    /\ instructions = prev_build.instructions
    /\ \A j \in DOMAIN log : log[j].desc = prev_build.log[j].desc

\* C6: a build that repeats the build before it, on the store that build
\* left, extracts every FROM, COPY and RUN from the cache and runs nothing
\* else, does not fail, leaves layers/, the index and the base-image tarball
\* as it found them, and saves the same ordered digests.
C6_CacheReuse ==
    (InBuild /\ SameAsPrevious) =>
      /\ \A j \in LayerPositions :
            /\ log[j].kind = "hit"
            /\ log[j].ran = <<"tar -xzf layer">>
            /\ log[j].digest = prev_build.log[j].digest
      /\ pc # "failed"
      /\ layer_files = store0.layer_files
      /\ cache_index = store0.cache_index
      /\ alpine_cache = store0.alpine_cache
      /\ pc = "done" => manifests[image_ref] = prev_build.layers

\* the repeated build has finished with two layers
C6_Witness ==
    /\ pc = "done"
    /\ SameAsPrevious
    /\ Len(manifests[image_ref]) >= 2

\* ---- C7
LayerInstruction(i) == IsLayerOp(i.op)

\* C7: the saved manifest holds the digest of each FROM, COPY and RUN, in
\* the order of the instructions, and nothing else; a config is saved with
\* it; a build of a file without FROM, COPY and RUN never fails, always has
\* a next step until it has saved, and saves a manifest of zero layers.
C7_OneLayerPerLayerInstruction ==
    /\ pc = "done" =>
          LET done == SelectSeq(log, LayerEntry) IN
          /\ image_ref \in DOMAIN manifests
          /\ image_ref \in DOMAIN configs
          /\ Len(log) = Len(instructions)
          /\ \A j \in DOMAIN log : log[j].instr = instructions[j]
          /\ manifests[image_ref] = [n \in 1..Len(done) |-> done[n].digest]
          /\ Len(manifests[image_ref])
                = Len(SelectSeq(instructions, LayerInstruction))
    /\ (InBuild /\ SelectSeq(instructions, LayerInstruction) = <<>>) =>
          /\ pc # "failed"
          /\ pc = "building" => ENABLED BuildNext
          /\ pc = "done" => manifests[image_ref] = <<>>

\* a build of metadata instructions followed by a RUN has saved one layer
C7_Witness ==
    /\ pc = "done"
    /\ Len(instructions) >= 4
    /\ \E j \in DOMAIN instructions : instructions[j].op \in MetaOps
    /\ Len(manifests[image_ref]) = 1

\* ---- C8
EnvInstruction(i) == i.op = "ENV"

LastWith(ins, op) ==
    LET at == {j \in DOMAIN ins : ins[j].op = op}
    IN  IF at = {} THEN 0 ELSE CHOOSE j \in at : \A m \in at : m <= j

ExpectedConfig(ins) ==
    LET envs == SelectSeq(ins, EnvInstruction)
        w    == LastWith(ins, "WORKDIR")
        e    == LastWith(ins, "ENTRYPOINT")
    IN  [entrypoint  |-> IF e = 0 THEN <<>>
                         ELSE [n \in 1..Len(ins[e].args) |-> Display(ins[e].args[n])],
         env         |-> <<"PATH=/usr/local/bin:/usr/bin:/bin">>
                         \o [n \in 1..Len(envs) |->
                                Display(envs[n].key) \o "=" \o Display(envs[n].value)],
         working_dir |-> IF w = 0 THEN "/" ELSE Display(ins[w].path)]

\* C8: the config a build saves is determined by its instructions alone: the
\* PATH entry followed by one K=V per ENV in order, the path of the last
\* WORKDIR or "/", the args of the last ENTRYPOINT or none.
C8_ConfigFromInstructions ==
    pc = "done" =>
        /\ image_ref \in DOMAIN configs
        /\ configs[image_ref] = ExpectedConfig(instructions)

\* a build with a cache hit has saved a config with an ENV entry, a working
\* directory and an entrypoint
C8_Witness ==
    /\ pc = "done"
    /\ \E j \in LayerPositions : log[j].kind = "hit"
    /\ Len(configs[image_ref].env) >= 2
    /\ configs[image_ref].working_dir # "/"
    /\ configs[image_ref].entrypoint # <<>>

\* ---- C9
\* an ENV line without '=' or a COPY line with fewer than two tokens
MalformedLine(raw) ==
    LET parts == splitn2(trim(raw), " ") IN
    /\ Len(parts) = 2
    /\ \/ /\ to_uppercase(parts[1]) = <<"E","N","V">>
          /\ find(parts[2], "=") = 0
       \/ /\ to_uppercase(parts[1]) = <<"C","O","P","Y">>
          /\ Len(split_whitespace(parts[2])) < 2

\* C9: a build whose file holds an ENV line without '=' or a COPY line with
\* fewer than two tokens is aborted by the parse error: it never returns Ok
\* and saves no manifest.
C9_MalformedLineAbortsBuild ==
    pc = "done" => \A n \in DOMAIN forgefile : ~MalformedLine(forgefile[n])

\* ---- C10
\* C10: the line `ENV  FOO=bar=baz` yields the one instruction ENV with key
\* FOO and value bar=baz.
C10_EnvSplitOnFirstEquals ==
    (p_input = <<L_EnvFoo>> /\ p_lines = <<>>) =>
        p_instructions = <<Env(<<"F","O","O">>, <<"b","a","r","=","b","a","z">>)>>

(***************************************************************************)
(* Properties of the run path                                              *)
(***************************************************************************)
RECURSIVE Collapse(_)
\* a sequence without its immediate repetitions
Collapse(seq) ==
    IF Len(seq) <= 1 THEN seq
    ELSE IF seq[1] = seq[2] THEN Collapse(Tail(seq))
         ELSE <<seq[1]>> \o Collapse(Tail(seq))

VethSteps ==
    {"create_veth_pair", "mv_exists", "mv_symlink", "mv_link_set", "mv_check",
     "mv_remove", "host_addr", "host_up", "cc_symlink", "cc_addr", "cc_up",
     "cc_lo", "cc_route", "cc_remove", "nat_masquerade", "nat_forward_out",
     "nat_forward_in"}

RootfsSteps ==
    {"create_dirs", "copy_bash", "bind_mount", "pivot", "mount_proc",
     "mount_sys", "mount_dev", "mount_tmp"}

HostPhase(step) == IF step \in VethSteps THEN "setup_veth" ELSE step

ChildPhase(step) ==
    IF step \in RootfsSteps THEN "setup_root_filesystem"
    ELSE IF step \in {"apply_env", "chdir"} THEN "apply_config"
    ELSE step

PhasesOf(trace, Phase(_)) ==
    Collapse([n \in DOMAIN trace |-> Phase(trace[n])])

HostOrder ==
    <<"setup_cgroups", "ip_forward", "detect_iface", "unshare", "fork",
      "setup_veth", "waitpid">>

ChildOrder ==
    IF r_mode = "image"
    THEN <<"unshare_net", "join_cgroup", "setup_root_filesystem",
           "apply_config", "exec">>
    ELSE <<"unshare_net", "join_cgroup", "setup_root_filesystem", "exec">>

\* the first steps of `order`, as far as `done` goes
StartsAlong(done, order) ==
    \A n \in DOMAIN done : n <= Len(order) => done[n] = order[n]

\* C11: the steps H has completed are, in this order, cgroup setup,
\* ip_forward, interface detection, unshare(PID|MNT|UTS), fork, veth setup,
\* wait; the steps C has completed are, in this order, unshare(NET), cgroup
\* join, root filesystem setup, env and working directory, exec; and C does
\* nothing before the fork.  No step is completed before the one before it.
C11_LifecycleOrder ==
    /\ StartsAlong(PhasesOf(h_trace, HostPhase), HostOrder)
    /\ StartsAlong(PhasesOf(c_trace, ChildPhase), ChildOrder)
    /\ Len(PhasesOf(c_trace, ChildPhase)) <= Len(ChildOrder)
    /\ (c_pc # "off" \/ c_trace # <<>>) =>
          \E n \in DOMAIN h_trace : h_trace[n] = "fork"

\* an image run in which C reached its exec and H returned from its wait
C11_Witness ==
    /\ r_mode = "image"
    /\ PhasesOf(c_trace, ChildPhase) = ChildOrder
    /\ Len(h_trace) > 0 /\ h_trace[Len(h_trace)] = "waitpid"
    /\ \E n \in DOMAIN h_trace : h_trace[n] = "nat_forward_in"

\* C12: whatever the interleaving of H and C after the fork, the peer is
\* moved into, and the address, loopback and default route are configured
\* in, the namespace C made with unshare(NET), never the host's namespace,
\* which C is still in before its unshare(NET).
C12_PeerInPrivateNamespace ==
    /\ peer_in # "host_ns"
    /\ "host_ns" \notin cc_targets

\* C13: when the engine H ends with process::exit, its code is 1 if a fatal
\* step failed in H or in C or C did not exit cleanly, and 0 otherwise.
C13_ExitCode ==
    h_pc = "exited" =>
        exit_code["H"] = IF fatal_failed \/ exit_code["C"] \notin {0, NotExited}
                         THEN 1 ELSE 0

\* C14: in the image run path, when H has ended after its unshare (by the
\* normal exit, the failed fork or a failed iptables), it has completed
\* cleanup_cgroup and the removal of the rootfs directory.
C14_CleanupOnEveryExit ==
    (/\ r_mode = "image"
     /\ h_pc = "exited"
     /\ \E n \in DOMAIN h_trace : h_trace[n] = "unshare") =>
        /\ \E n \in DOMAIN h_trace : h_trace[n] = "cleanup_cgroup"
        /\ \E n \in DOMAIN h_trace : h_trace[n] = "remove_rootfs"
        /\ ~rootfs_dir

\* C15: cleanup_cgroup attempts no remove_dir of the container's cgroup
\* before it has sent SIGKILL to every pid it read from the cgroup.procs of
\* that cgroup (of each controller's directory, with cgroup v1).
C15_KillBeforeRemove ==
    cl_removed # {} => \A c \in AllControllers : cl_read[c] \subseteq cl_killed

\* cleanup_cgroup read a pid, signalled it and went on to remove_dir
C15_Witness ==
    /\ cl_removed # {}
    /\ \E c \in AllControllers : cl_read[c] # {}

\* C16: in a run whose cgroup no foreign process has entered,
\* cleanup_cgroup, once called, returns: the process that called it does
\* not end inside it; and when it returned, each directory of the
\* container's cgroup was gone or listed no pid.
C16_CleanupReturns ==
    nforeign = 0 =>
        /\ (cl_pc # "idle" /\ Cleaner \notin alive) => cl_pc = "returned"
        /\ cl_pc = "returned" => cl_post

\* C18: /var/run/netns/cnt-<pid> exists only while H is inside move_to_netns
\* or configure_container_veth, between the symlink and the remove_file.
C18_NetnsLinkScoped ==
    netns_link =>
        h_pc \in {"mv_link_set", "mv_check", "mv_remove",
                  "cc_addr", "cc_up", "cc_lo", "cc_route", "cc_remove"}

\* C17: two invocations of the runtime that are live at the same time, each
\* an image run or the interactive mode, have passed different cgroup names
\* to setup_cgroups.
C17_UniqueLiveCgroupNames ==
    \A i, j \in 1..MaxInvocations :
        (i # j /\ inv[i].state = "live" /\ inv[j].state = "live")
            => inv[i].name # inv[j].name


(***************************************************************************)
(* Properties of the store's files                                         *)
(***************************************************************************)
\* the last operation was a load of `kind` from a file that a save which
\* returned Ok describes
LoadedSaved(op, kind) ==
    /\ f_last.op = op
    /\ f_last.path \in DOMAIN f_saved
    /\ f_saved[f_last.path].kind = kind

\* the load returned Ok with the value that was saved
ReturnsSaved ==
    /\ f_last.result = "Ok"
    /\ f_last.value = f_saved[f_last.path].value

\* C19: load_manifest(M.name, M.tag) after a save_manifest(M) that returned
\* Ok returns a manifest equal to M; load_cache_index after save_cache_index
\* returns the mapping that was saved; load_config returns the config that
\* the build wrote.
C19_RoundTrip ==
    /\ LoadedSaved("load_manifest", "manifest") => ReturnsSaved
    /\ LoadedSaved("load_cache_index", "index") => ReturnsSaved
    /\ LoadedSaved("load_config", "config") => ReturnsSaved


(***************************************************************************)
(* Properties of a build on an unreadable cache index                      *)
(***************************************************************************)
\* this build started on a store whose index file was absent or malformed
StartedUnreadable == store0.cache_index \in {EmptyFn, CorruptIndexFile}

\* the FROM, COPY and RUN of this build that have been committed
Committed == {j \in LayerPositions : log[j].kind # "failed"}

\* the index holds the key and digest of each committed instruction and
\* nothing else
IndexOfThisBuild ==
    /\ cache_index # CorruptIndexFile
    /\ DOMAIN cache_index = {log[j].key : j \in Committed}
    /\ \A j \in Committed : cache_index[log[j].key] = log[j].digest

\* every FROM, COPY and RUN so far was a miss, and a failure is that of an
\* instruction's own effect
AllMisses ==
    /\ \A j \in Committed : log[j].kind = "miss" /\ ~log[j].indexed
    /\ pc = "failed" => log[Len(log)].kind = "failed"

\* the build before this one started on an unreadable index, and this one
\* repeats it
RepeatsUnreadable ==
    /\ SameAsPrevious
    /\ prev_build.store0.cache_index \in {EmptyFn, CorruptIndexFile}

AllHits == \A j \in LayerPositions : log[j].kind = "hit"

\* C20 as stated: a build started on an absent or malformed index misses on
\* every FROM, COPY and RUN, is not failed by the index, and when it has
\* completed the index is well-formed and holds its entries; the build that
\* repeats it hits on all of them.
C20_Original ==
    /\ (InBuild /\ StartedUnreadable) =>
          /\ AllMisses
          /\ pc = "done" => IndexOfThisBuild
    /\ (InBuild /\ RepeatsUnreadable) => AllHits

\* C20: as above, for a build with at least one FROM, COPY or RUN: the file
\* is rewritten by the first of them that is committed, and from then on
\* holds exactly the entries of this build; until then, and in a build
\* without any, the file is left as it was found.
C20_UnreadableIndexIsEmpty ==
    /\ (InBuild /\ StartedUnreadable) =>
          /\ AllMisses
          /\ IF Committed = {} THEN cache_index = store0.cache_index
             ELSE IndexOfThisBuild
    /\ (InBuild /\ RepeatsUnreadable) => AllHits

\* a build of two layers on a malformed index was repeated and has finished
C20_Witness ==
    /\ pc = "done"
    /\ SameAsPrevious
    /\ prev_build.store0.cache_index = CorruptIndexFile
    /\ Cardinality(LayerPositions) >= 2
    /\ AllHits


(***************************************************************************)
(* Properties of layers/                                                   *)
(***************************************************************************)
\* the last operation was a save_layer that returned a digest
LayerSaved == f_last.op = "save_layer" /\ f_last.result = "Ok"

\* `content` under `path` is the layer that path names
IsLayerOf(path, content) == path = LayerPath(LayerDigest(content))

\* C21: a save_layer that returns gives "sha256:" and the hash of the
\* tarball's bytes, whatever the tarball's path and the store; layers/<digest>
\* then holds those bytes; every other file of layers/ is as it was; if the
\* file already held those bytes nothing has changed; and no file that held
\* the bytes its name is the hash of holds other bytes afterwards.
C21_ContentAddressed ==
    LayerSaved =>
      LET own    == LayerPath(f_last.value)
          before == f_last.before
      IN  /\ f_last.value = <<"sha256:", f_last.bytes>>
          /\ DOMAIN store_files = DOMAIN before \cup {own}
          /\ store_files[own] = f_last.bytes
          /\ \A p \in DOMAIN before :
                (p # own \/ before[p] = f_last.bytes) => store_files[p] = before[p]
          /\ \A p \in DOMAIN before :
                IsLayerOf(p, before[p]) => store_files[p] = before[p]

\* the same bytes were saved again, next to a layer of other bytes
C21_Witness ==
    /\ LayerSaved
    /\ LayerPath(f_last.value) \in DOMAIN f_last.before
    /\ f_last.before[LayerPath(f_last.value)] = f_last.bytes
    /\ \E p \in DOMAIN f_last.before :
          p # LayerPath(f_last.value) /\ IsLayerOf(p, f_last.before[p])


(***************************************************************************)
(* Properties of setup_cgroups                                             *)
(***************************************************************************)
\* a read of /sys/fs/cgroup/<path> returns `content`
Reads(path, content) == path \in DOMAIN cg_files /\ cg_files[path] = content

\* C22: after setup_cgroups("t") on a cgroup-v2 host, run by a user whose
\* writes the hierarchy accepts, t/memory.max reads 536870912, t/pids.max
\* reads 100 and t/cpu.max reads "50000 100000".
C22_LimitsInForce ==
    (cg_version = 2 /\ cg_writable /\ h_pc = "cgroups_configured") =>
        /\ Reads(CGROUP_T \o "/memory.max", "536870912")
        /\ Reads(CGROUP_T \o "/pids.max", "100")
        /\ Reads(CGROUP_T \o "/cpu.max", "50000 100000")


(***************************************************************************)
(* Properties of a build that meets a failing step                         *)
(***************************************************************************)

\* the step logged as e was a RUN whose command exited non-zero
RunExitedNonZero(e) ==
    e.op = "RUN" /\ e.kind = "failed"

\* the step logged as e was a FROM of an image pull_base_image does not know
UnsupportedBase(e) ==
    /\ e.op = "FROM" /\ e.kind # "hit"
    /\ ~starts_with(e.instr.image, <<"a","l","p","i","n","e">>)

\* the step logged as e was a FROM whose download did not deliver the
\* tarball: curl exited non-zero, or curl exited 0 on an HTTP error
DownloadFailed(e) ==
    /\ e.op = "FROM" /\ e.kind # "hit"
    /\ e.ran # <<>>
    /\ \/ e.kind = "failed" /\ e.ran[1] = "curl"
       \/ e.ran[1] = "curl: HTTP error"

\* C23: a RUN that exits non-zero, a base image other than alpine and a
\* failed base-image download each end the build: the failing step is the
\* last one the build takes, the build has failed, and the manifest and the
\* config of every image are what they were when the build started.
C23_FailingStepAbortsBuild ==
    \A j \in 1..Len(log) :
        (RunExitedNonZero(log[j]) \/ UnsupportedBase(log[j]) \/ DownloadFailed(log[j]))
            => /\ j = Len(log)
               /\ pc = "failed"
               /\ manifests = store0.manifests
               /\ configs = store0.configs

\* the part of C23 the code keeps: the steps on which build returns Err
C23_ErrStepsAbort ==
    \A j \in 1..Len(log) :
        (log[j].kind = "failed")
            => /\ j = Len(log)
               /\ pc = "failed"
               /\ manifests = store0.manifests
               /\ configs = store0.configs


(***************************************************************************)
(* Properties of `run IMAGE:TAG` before the engine starts                  *)
(***************************************************************************)

\* the store has no manifest, or no config, of the image `run` was asked for
ImageNotInStore ==
    \/ ManifestPath(RunName, RunTag) \notin DOMAIN store_files
    \/ ConfigPath(RunName, RunTag) \notin DOMAIN store_files

\* nothing of a container exists: no rootfs directory, no cgroup and no
\* member of one, no namespace of its own, no veth peer or namespace link
\* anywhere, no configuration command aimed at a namespace, no step of the
\* engine (cgroup setup, ip_forward, packet-filter rules) completed, no child
NothingCreated ==
    /\ ~rootfs_dir
    /\ cg_dirs = {} /\ cg_members = {}
    /\ cg_files = EmptyFn
    /\ ~net_unshared /\ peer_in = "nowhere" /\ cc_targets = {} /\ ~netns_link
    /\ h_trace = <<>> /\ c_trace = <<>> /\ c_pc = "off"

\* C24: `run` of an image whose manifest or config is not in the store ends
\* with exit code 1 and never goes further: at every moment of such a run
\* nothing of a container has been created, and the process, once it has
\* ended, has ended with code 1.
C24_MissingImageExitsEarly ==
    (r_mode = "image" /\ ImageNotInStore) =>
        /\ NothingCreated
        /\ h_pc \in {"run_image", "exited"}
        /\ h_pc = "exited" => exit_code["H"] = 1

\* a run of an image without its manifest has ended
C24_Witness ==
    /\ r_mode = "image"
    /\ ManifestPath(RunName, RunTag) \notin DOMAIN store_files
    /\ ConfigPath(RunName, RunTag) \in DOMAIN store_files
    /\ h_pc = "exited" /\ exit_code["H"] = 1


(***************************************************************************)
(* Properties of save_manifest and the files of layers/                    *)
(***************************************************************************)

\* C25: a manifest that save_manifest has written to manifests/<name>/<tag>
\* names only layers that have a file under layers/: save_manifest(M) leaves
\* the manifest file as it was when a digest of M.layers has no file.
C25_ManifestLayersExist ==
    \A path \in DOMAIN f_saved :
        (f_saved[path].kind = "manifest" /\ path \in DOMAIN store_files) =>
            \A i \in DOMAIN f_saved[path].value.layers :
                LayerPath(f_saved[path].value.layers[i]) \in DOMAIN store_files


(***************************************************************************)
(* Properties of the supervisor in cleanup_cgroup                          *)
(***************************************************************************)

\* C26: in an image run, while cleanup_cgroup runs the process H that called
\* it is in no directory of the cgroup, H is not among the pids the kill
\* loop read or signalled, and H is not ended by SIGKILL.
C26_SupervisorOutsideCgroup ==
    r_mode = "image" =>
        /\ cl_pc \notin {"idle", "returned"} =>
              \A c \in AllControllers : <<c, "H">> \notin cg_members
        /\ \A c \in AllControllers : "H" \notin cl_read[c]
        /\ "H" \notin cl_killed
        /\ exit_code["H"] # ExitKilled


\* C27: a cached layer whose extraction failed (tar exited non-zero) ends
\* the build: it is the last step the build takes, the build has failed, the
\* layer's digest is not among the layers of the build, and no manifest has
\* been saved since the build started.
C27_FailedExtractionAbortsBuild ==
    \A j \in 1..Len(log) :
        (log[j].kind = "hit" /\ ~log[j].extract_ok)
            => /\ j = Len(log)
               /\ pc = "failed"
               /\ \A n \in DOMAIN layers : layers[n] # log[j].digest
               /\ manifests = store0.manifests


(***************************************************************************)
(* Properties of the cache index after a build                             *)
(***************************************************************************)

\* the steps of the build that produced a layer, in the order of the build
LayerSteps == SelectSeq(log, LayerEntry)

\* the saved manifest has one digest per layer step, and the cache index
\* maps the key of each step to that digest
IndexAgreesWithManifest ==
    pc = "done" =>
        /\ image_ref \in DOMAIN manifests
        /\ Len(manifests[image_ref]) = Len(LayerSteps)
        /\ \A n \in DOMAIN LayerSteps :
              get_cached_layer(LayerSteps[n].key) = <<manifests[image_ref][n]>>

\* a step that writes a digest to the cache index, under a new key or in
\* place of another digest, leaves that digest with a file under layers/
IndexWritesExistingLayers ==
    \A k \in DOMAIN cache_index' :
        (k \notin DOMAIN cache_index \/ cache_index[k] # cache_index'[k])
            => cache_index'[k] \in layer_files'

\* C28: after a successful build the cache index maps the key k_i of every
\* layer-producing instruction i to exactly the digest the manifest holds for
\* that instruction, and every digest written to the cache index had a file
\* under layers/ when it was written.
C28_IndexMatchesManifest ==
    /\ []IndexAgreesWithManifest
    /\ [][IndexWritesExistingLayers]_vars

\* a build has ended well with a layer taken from the cache and a layer made
C28_Witness ==
    /\ pc = "done"
    /\ \E n \in DOMAIN LayerSteps : LayerSteps[n].kind = "hit"
    /\ \E n \in DOMAIN LayerSteps : LayerSteps[n].kind = "miss"


(***************************************************************************)
(* Properties of the cache key as a name of the instruction history        *)
(***************************************************************************)

\* C29: a cache key names one instruction history: when a step of this build
\* has the key of a step of the build before it, the two are the same step of
\* their builds and the instructions up to it are the same instructions.
C29_KeyIdentifiesHistory ==
    prev_build # NoBuild =>
        \A i \in DOMAIN prev_build.log, j \in DOMAIN log :
            prev_build.log[i].key = log[j].key =>
                /\ i = j
                /\ \A m \in 1..j : prev_build.log[m].instr = log[m].instr


(***************************************************************************)
(* Properties of the root filesystem of an image run                       *)
(***************************************************************************)

\* C30: in an image run the child never completes copy_bash_and_dependencies:
\* setup_root_filesystem copies no host binary and no host library into the
\* rootfs the layers made; the copy belongs to the interactive mode only.
C30_NoHostBinariesInImageRootfs ==
    r_mode = "image" =>
        \A n \in DOMAIN c_trace : c_trace[n] # "copy_bash"


(***************************************************************************)
(* Properties of the teardown and the container process                    *)
(***************************************************************************)

\* C31: cleanup_cgroup is not under way, and remove_dir_all of the rootfs
\* has not been done, while the container process C is still running: both
\* start only after C has terminated.
C31_TeardownAfterChildExit ==
    /\ cl_pc \notin {"idle", "returned"} => "C" \notin alive
    /\ (\E n \in DOMAIN h_trace : h_trace[n] = "remove_rootfs") => "C" \notin alive

\* the image run path alone keeps the order: H is past its waitpid only
\* when C has terminated
C31_ImageRunWaitsForChild ==
    (/\ r_mode = "image"
     /\ \/ cl_pc # "idle"
        \/ \E n \in DOMAIN h_trace : h_trace[n] = "remove_rootfs")
        => "C" \notin alive


\* C32: on a cgroup-v2 host whose hierarchy can be written, once
\* setup_cgroups is past enable_controllers_v2 (the limits are about to be
\* written, or have been) cpu, memory and pids are enabled in the root's
\* cgroup.subtree_control.
C32_ControllersEnabledBeforeLimits ==
    (/\ cg_version = 2 /\ cg_writable
     /\ h_pc \in {"set_limits", "add_process", "cgroups_configured"})
        => V2Controllers \subseteq cg_subtree


(***************************************************************************)
(* Properties of the failures of the network setup                         *)
(***************************************************************************)

IpSteps ==
    {"create_veth_pair", "mv_link_set", "host_addr", "host_up", "cc_addr",
     "cc_up", "cc_lo", "cc_route"}

IptablesSteps == {"nat_masquerade", "nat_forward_out", "nat_forward_in"}

HostCompleted(step) == \E n \in DOMAIN h_trace : h_trace[n] = step

\* the step H was in when it ended: the one after the last it completed
HostEndedIn ==
    IF h_trace = <<>> THEN "run_image"
    ELSE LET last == h_trace[Len(h_trace)] IN
         CASE last = "fork"            -> "create_veth_pair"
           [] last = "mv_exists"       -> "mv_symlink"
           [] last = "mv_symlink"      -> "mv_link_set"
           [] last = "mv_link_set"     -> "mv_check"
           [] last = "mv_remove"       -> "host_addr"
           [] last = "host_addr"       -> "host_up"
           [] last = "cc_symlink"      -> "cc_addr"
           [] last = "cc_addr"         -> "cc_up"
           [] last = "cc_up"           -> "cc_lo"
           [] last = "cc_lo"           -> "cc_route"
           [] last = "cc_remove"       -> "nat_masquerade"
           [] last = "nat_masquerade"  -> "nat_forward_out"
           [] last = "nat_forward_out" -> "nat_forward_in"
           [] OTHER                    -> "elsewhere"

\* an `ip` command of the setup is known to have exited non-zero: the peer
\* was not moved by the link set that ran, or no address, link or route
\* command took effect in a namespace although all four ran
IpExitedNonZero ==
    \/ HostCompleted("mv_link_set") /\ peer_in = "nowhere"
    \/ HostCompleted("cc_route") /\ cc_targets = {}

\* a step of H in an iptables invocation either installs the rule and goes
\* on to the next step, or ends H with code 1, or with a panic when
\* iptables could not be started; it then installs nothing more
IptablesStep ==
    (h_pc \in IptablesSteps /\ h_pc' # h_pc) =>
        \/ /\ h_trace' = Append(h_trace, h_pc)
           /\ "H" \in alive'
        \/ /\ h_trace' = h_trace
           /\ "H" \notin alive'
           /\ exit_code'["H"] \in {1, ExitPanic}

\* a step of H in an `ip` invocation goes on to the next step whatever the
\* exit status, and ends H only with a panic when ip could not be started
IpStep ==
    (h_pc \in IpSteps /\ h_pc' # h_pc) =>
        \/ /\ h_trace' = Append(h_trace, h_pc)
           /\ "H" \in alive'
        \/ /\ h_pc' = "panicked"
           /\ exit_code'["H"] = ExitPanic

C33_WitnessFatal ==
    /\ h_pc = "exited" /\ exit_code["H"] = 1
    /\ HostEndedIn = "nat_forward_out"


(***************************************************************************)
(* Properties of the parser's output, line by line.  What a line is to     *)
(* yield is written here from the positions of its characters, without the *)
(* string operations the parser is built from.                            *)
(***************************************************************************)
Min(S) == CHOOSE x \in S : \A y \in S : x <= y
Max(S) == CHOOSE x \in S : \A y \in S : x >= y

\* the positions of s that hold a character other than white space
Inked(s) == {i \in DOMAIN s : s[i] \notin {" ", "\t"}}

\* s from its first to its last character that is not white space
Stripped(s) ==
    IF Inked(s) = {} THEN <<>> ELSE SubSeq(s, Min(Inked(s)), Max(Inked(s)))

\* s from its first to its last character that is not a double quote
Unquoted(s) ==
    LET kept == {i \in DOMAIN s : s[i] # "\""} IN
    IF kept = {} THEN <<>> ELSE SubSeq(s, Min(kept), Max(kept))

\* word is cmd written in any mix of upper and lower case
IsCommand(word, cmd) ==
    /\ Len(word) = Len(cmd)
    /\ \A i \in DOMAIN cmd :
          \/ word[i] = cmd[i]
          \/ \E n \in DOMAIN Upper : Upper[n] = cmd[i] /\ Lower[n] = word[i]

\* the pieces of s between its commas, from left to right
Pieces(s) ==
    LET commas == {i \in DOMAIN s : s[i] = ","}
        cuts   == {0} \cup commas \cup {Len(s) + 1}
        starts == cuts \ {Len(s) + 1}
        nth    == [k \in 1..Cardinality(starts) |->
                     CHOOSE c \in starts :
                        Cardinality({d \in starts : d < c}) = k - 1]
    IN  [k \in 1..Cardinality(starts) |->
            SubSeq(s, nth[k] + 1, Min({c \in cuts : c > nth[k]}) - 1)]

\* the words of s: its maximal runs of characters other than white space
WordsOf(s) ==
    LET starts == {i \in Inked(s) : i = 1 \/ (i - 1) \notin Inked(s)}
        nth    == [k \in 1..Cardinality(starts) |->
                     CHOOSE c \in starts :
                        Cardinality({d \in starts : d < c}) = k - 1]
    IN  [k \in 1..Cardinality(starts) |->
            SubSeq(s, nth[k],
                   Max({j \in nth[k]..Len(s) : \A m \in nth[k]..j : m \in Inked(s)}))]

\* what a line of the file is to contribute: no instruction, or one
Contribution(raw) ==
    LET line   == Stripped(raw)
        spaces == {i \in DOMAIN line : line[i] = " "}
    IN  IF line = <<>> \/ line[1] = "#" \/ spaces = {} THEN <<>>
        ELSE
        LET word == SubSeq(line, 1, Min(spaces) - 1)
            args == SubSeq(line, Min(spaces) + 1, Len(line))
        IN  CASE IsCommand(word, <<"F","R","O","M">>) -> <<From(args)>>
              [] IsCommand(word, <<"R","U","N">>) -> <<Run(args)>>
              [] IsCommand(word, <<"W","O","R","K","D","I","R">>) -> <<Workdir(args)>>
              [] IsCommand(word, <<"C","O","P","Y">>) ->
                    IF Len(WordsOf(args)) < 2 THEN <<>>
                    ELSE <<Copy(WordsOf(args)[1], WordsOf(args)[2])>>
              [] IsCommand(word, <<"E","N","V">>) ->
                    LET eqs == {i \in DOMAIN args : args[i] = "="} IN
                    IF eqs = {} THEN <<>>
                    ELSE <<Env(SubSeq(args, 1, Min(eqs) - 1),
                               SubSeq(args, Min(eqs) + 1, Len(args)))>>
              [] IsCommand(word, <<"E","N","T","R","Y","P","O","I","N","T">>) ->
                    LET a == Stripped(args) IN
                    IF a = <<>> \/ a[1] # "[" \/ a[Len(a)] # "]" THEN <<>>
                    ELSE LET tokens == [k \in DOMAIN Pieces(SubSeq(a, 2, Len(a) - 1)) |->
                                Unquoted(Stripped(Pieces(SubSeq(a, 2, Len(a) - 1))[k]))]
                         IN  <<Entrypoint(SelectSeq(tokens, NonEmpty))>>
              [] OTHER -> <<>>

\* the contributions of the lines of a file, in the order of the lines
RECURSIVE Contributions(_)
Contributions(lines) ==
    IF lines = <<>> THEN <<>>
    ELSE Contribution(Head(lines)) \o Contributions(Tail(lines))

\* the lines of the input that parse has read so far
LinesRead == SubSeq(p_input, 1, Len(p_input) - Len(p_lines))

\* C34: the instructions parse holds are exactly the recognised lines read so
\* far, in source order: a blank line, a line whose first character after
\* white space is `#`, a line without a space and a line with an unknown
\* command word add nothing; the command word counts in any case of its
\* letters; ENTRYPOINT takes an argument of the form [ ... ] and gives its
\* comma-separated tokens, stripped of white space, then of double quotes,
\* the empty ones dropped.
C34_OutputIsRecognisedLines ==
    p_instructions = Contributions(LinesRead)

\* parse is through the file of padded, commented, tabbed and mixed-case
\* lines and holds its four instructions
C34_Witness ==
    /\ p_input = RecognitionFile
    /\ p_lines = <<>>
    /\ p_instructions =
          <<From(<<"a", " ", "b">>),
            Entrypoint(<<<<"a", " ">>, <<"b">>>>),
            Run(<<"a">>),
            Env(<<"K">>, <<"1">>)>>


(***************************************************************************)
(* run_image: the tag, the order of the layers, the call of the engine     *)
(***************************************************************************)
IsPrefixOf(s, t) == Len(s) <= Len(t) /\ s = SubSeq(t, 1, Len(s))

\* the positions of the colons of the reference given
RefColons == {n \in DOMAIN ri_ref : ri_ref[n] = ":"}

\* the name the reference gives: what stands before its first colon
NamedName ==
    IF RefColons = {} THEN ri_ref ELSE SubSeq(ri_ref, 1, Min(RefColons) - 1)

\* the tag the reference gives: what stands between its first colon and the
\* next; `latest` when it has no colon
NamedTag ==
    IF RefColons = {} THEN Latest
    ELSE LET first == Min(RefColons)
             later == {n \in RefColons : n > first}
             stop  == IF later = {} THEN Len(ri_ref) + 1 ELSE Min(later)
         IN  SubSeq(ri_ref, first + 1, stop - 1)

\* the manifest and the config the store holds for that name and tag
StoredLayers == manifests[<<NamedName, NamedTag>>].val
StoredConfig == configs[<<NamedName, NamedTag>>].val

\* the engine has been called with the config of the store and with a rootfs
\* path and a cgroup name made from one uuid
EngineCalledAsLoaded ==
    /\ ri_call.config = StoredConfig
    /\ \E u \in UuidPool : /\ ri_call.rootfs = "/tmp/container-" \o u
                           /\ ri_call.cgroup_name = "img-" \o u

\* C35: run_image takes `latest` for a tag the reference does not give; the
\* layers that have been extracted into the rootfs are at every moment the
\* first ones of the manifest, in its order; the engine is called only when
\* all of them have been extracted, with the loaded config and with a cgroup
\* name img-<uuid> whose uuid is that of the rootfs path.
C35_EngineAfterAllLayers ==
    /\ ri_pc \notin {"idle", "load"} =>
          /\ ri_name = NamedName
          /\ ri_tag = NamedTag
    /\ ri_manifest # NotLoaded => IsPrefixOf(ri_content, StoredLayers)
    /\ ri_call # NoCall =>
          /\ ri_content = StoredLayers
          /\ EngineCalledAsLoaded

\* the same of the layers tar has been run on, whatever its exit status
C35_EngineAfterAllTarRuns ==
    /\ ri_pc \notin {"idle", "load"} =>
          /\ ri_name = NamedName
          /\ ri_tag = NamedTag
    /\ ri_manifest # NotLoaded => IsPrefixOf(ri_tar, StoredLayers)
    /\ ri_call # NoCall =>
          /\ ri_tar = StoredLayers
          /\ EngineCalledAsLoaded

\* the engine has been called for a reference without a tag after both
\* layers of a:latest were extracted
C35_TarRunsWitness ==
    /\ ri_ref = <<"a">>
    /\ ri_call # NoCall
    /\ ri_content = <<DL_1, DL_2>>


(***************************************************************************)
(* setup_root_filesystem: the order of its calls and what ends the child   *)
(***************************************************************************)
\* the place of a call in fs_calls, 0 when it has not been made
Place(name) ==
    IF \E n \in DOMAIN fs_calls : fs_calls[n].call = name
    THEN Max({n \in DOMAIN fs_calls : fs_calls[n].call = name})
    ELSE 0

Made(name) == Place(name) > 0
Succeeded(name) == Made(name) /\ fs_calls[Place(name)].ok
Failed(name) == Made(name) /\ ~fs_calls[Place(name)].ok

\* a call made is made after `first` was
CallAfter(first, name) == Made(name) => (Made(first) /\ Place(first) < Place(name))

MountCalls ==
    {"bind_mount", "pivot_root", "mount_proc", "mount_sys", "mount_devtmpfs",
     "mount_dev_tmpfs", "mount_tmp"}

\* the child has left pivot_to_new_root and goes on with the mounts
PastPivot ==
    fs_pc \in {"mount_essential_filesystems", "returned"} \/ Made("mount_proc")

SkeletonBeforeMounts == \A m \in MountCalls : CallAfter("create_dirs", m)

BindBeforePivot == CallAfter("bind_mount", "pivot_root")

ChrootIffPivotFailed == Made("chroot") <=> Failed("pivot_root")

OldRootGone ==
    (PastPivot /\ Succeeded("pivot_root")) =>
        /\ Succeeded("umount_old_root")
        /\ Succeeded("remove_old_root")
        /\ fs_old_root = "absent"

OldRootRemovalAttempted ==
    (PastPivot /\ Succeeded("pivot_root")) =>
        /\ CallAfter("pivot_root", "umount_old_root") /\ Made("umount_old_root")
        /\ CallAfter("umount_old_root", "remove_old_root") /\ Made("remove_old_root")

FailedRootExitsOne ==
    (Failed("bind_mount") \/ (Failed("pivot_root") /\ Failed("chroot")))
        => fs_exit = 1

EssentialMounts ==
    /\ CallAfter("pivot_root", "mount_proc")
    /\ CallAfter("mount_proc", "mount_sys")
    /\ CallAfter("mount_sys", "mount_devtmpfs")
    /\ CallAfter("mount_devtmpfs", "mount_tmp")
    /\ Made("mount_dev_tmpfs") =>
          /\ Failed("mount_devtmpfs")
          /\ Place("mount_dev_tmpfs") = Place("mount_devtmpfs") + 1
    /\ (Failed("mount_proc") \/ Failed("mount_sys") \/ Failed("mount_tmp"))
          => fs_exit # NotExited
    /\ fs_pc = "returned" =>
          /\ Succeeded("mount_proc") /\ Succeeded("mount_sys")
          /\ Made("mount_devtmpfs") /\ Succeeded("mount_tmp")
    /\ (Made("mount_devtmpfs") /\ ~Made("mount_tmp")) => fs_pc # "returned"
    /\ (Failed("mount_dev_tmpfs") /\ ~Failed("mount_tmp")) => fs_exit = NotExited

\* C36: in the child the directory skeleton is made before any mount, the
\* new root is bind-mounted before the pivot, chroot is tried exactly when
\* pivot_root failed, after a pivot that succeeded /old_root is unmounted
\* and removed, a failed bind mount and a failed pivot with a failed chroot
\* end the child with code 1, and proc, sysfs, dev and tmp are then mounted
\* in this order, where a failure of proc, sys or tmp ends the child and a
\* failure of dev does not.
C36_RootfsSetup ==
    /\ SkeletonBeforeMounts
    /\ BindBeforePivot
    /\ ChrootIffPivotFailed
    /\ OldRootGone
    /\ FailedRootExitsOne
    /\ EssentialMounts

\* the same, with the unmounting and the removal of /old_root only tried
C36_RootfsSetupAttempts ==
    /\ SkeletonBeforeMounts
    /\ BindBeforePivot
    /\ ChrootIffPivotFailed
    /\ OldRootRemovalAttempted
    /\ FailedRootExitsOne
    /\ EssentialMounts

\* both mounts of /dev have failed, /old_root is gone and the child has
\* mounted /tmp
C36_AttemptsWitness ==
    /\ fs_pc = "returned"
    /\ Succeeded("pivot_root")
    /\ fs_old_root = "absent"
    /\ Failed("mount_dev_tmpfs")

\* the child has got into its root by chroot after pivot_root failed
C36_ChrootWitness ==
    /\ fs_pc = "returned"
    /\ Failed("pivot_root")
    /\ Succeeded("chroot")

====
